---- MODULE Spec2Model ----
(***************************************************************************)
(* Stock-Swing-Analyser: the per-session detectors of Demo1.py             *)
(* (StockSwingCounter.detect_swings) and update2.py (SwingCounterTab.run,  *)
(* ReversalCycleTab.run, DownFromHighTab.run).                             *)
(*                                                                         *)
(* Prices and thresholds are integers.  A percentage is kept as an exact   *)
(* fraction [num, den] with den >= 0, so "pct >= threshold" is decided as  *)
(* num >= threshold * den.  den = 0 is the result of dividing a numpy      *)
(* float by zero, which does not raise: nan (num = 0), inf (num > 0) or    *)
(* -inf (num < 0), and it compares as those floats do.  On the prices and  *)
(* thresholds used here the float comparisons of the source give the same  *)
(* answers as the exact ones.                                              *)
(*                                                                         *)
(* A behaviour of Spec is one call of detect_swings, one session of the    *)
(* swing tab or of the reversal-cycle tab (one group of groupby("date")),  *)
(* or one scan of the dip tab over its symbol list.  SpecUniverse is the   *)
(* symbol file of StockUniverse under save_symbols and load_symbols.       *)
(* SpecRun is a whole run over a symbol list: SwingCounterTab.run,         *)
(* ReversalCycleTab.run and EarlySessionTab.run of update2.py with the     *)
(* view-mode switch, and run_analysis of Demo1.py with its Run and Stop    *)
(* buttons; the provider's answer to each call is chosen freely.           *)
(***************************************************************************)
EXTENDS Integers, Sequences, FiniteSets, TLC

\* ---------------------------------------------------------------- bounds
\* Longest session (number of bars) drawn by Init.
MaxLen == 4

\* Close prices of a session (PriceBar: positive numbers).  100 -> 103 and
\* 100 -> 97 are moves of exactly 3%, 103 -> 106 and 106 -> 103 of just
\* under 3%, 100 -> 106 of 6%.
Prices == {97, 100, 103, 106}

\* detect_swings guards a running low / high of 0, so its sessions may
\* also hold the price 0.
PricesWithZero == Prices \cup {0}

\* Open of the first bar of a session.
Opens == {97, 100, 103}

\* Threshold values: in (0, 100], the ends of the range included.
Thresholds == {3, 5, 100}

\* The session of scenario 1 (swing detector) and of scenario 2 (reversal
\* cycles) of the specification.
Scenario1Closes == <<100, 106, 103, 112, 108>>
Scenario2Closes == <<100, 103, 106, 101, 97>>

None == "None"

SeqsUpTo(S, n) == UNION {[1..k -> S] : k \in 0..n}

Max(a, b) == IF a >= b THEN a ELSE b
Min(a, b) == IF a <= b THEN a ELSE b

\* ------------------------------------------------------------ percentages
Zero == [num |-> 0, den |-> 1]

\* (a / b) * 100 for b >= 0.
Pct(a, b) == [num |-> a * 100, den |-> b]

IsZero(pct) == pct.den > 0 /\ pct.num = 0
IsNaN(pct) == pct.den = 0 /\ pct.num = 0

\* pct >= t, pct <= t and pct < t; every comparison with nan is false.
GE(pct, t) == IF pct.den > 0 THEN pct.num >= t * pct.den ELSE pct.num > 0
LE(pct, t) == IF pct.den > 0 THEN pct.num <= t * pct.den ELSE pct.num < 0
LT(pct, t) == IF pct.den > 0 THEN pct.num < t * pct.den ELSE pct.num < 0

VARIABLES
    tab,        \* which function or object this behaviour is about
    pc,         \* its position: "start", "loop", "done"; "skipped" for a
                \* session too short to count, "returned" for a scan or
                \* a run without symbols; "saved", "loaded", "resaved"
                \* for the symbol file; the worker's position in Demo1
    day,        \* the session: [Open |-> first bar's open, Close |-> closes]
    threshold,  \* swing_threshold / swing_pct / n_pct
    ds,         \* locals of detect_swings (Demo1.py)
    sw,         \* locals of the session loop of SwingCounterTab.run
    rc,         \* locals of the session loop of ReversalCycleTab.run
    events,     \* the swings counted so far, oldest first: [dir, price]
    today,      \* date.today() as a day number; its weekday is today % 7
    current_time, \* datetime.now().time(), in minutes after midnight
    symbols,    \* the symbol list of a tab's run
    dh,         \* locals of DownFromHighTab.run
    rows        \* the rows of the tab's tree, in insertion order

VARIABLES
    csv_file,   \* the rows of the symbol file at StockUniverse.csv_path
    loaded,     \* what the last load_symbols() returned
    run,        \* locals of a tab's run method or of run_analysis
    calls,      \* the provider calls made so far: [sym, outcome]
    stored_data, \* EarlySessionTab.stored_data: symbol -> daily records
    view_mode   \* EarlySessionTab.view_mode: "detailed" or "average"

\* The state of the symbol file and of a whole run, which the session loops
\* and the dip scan above never touch.
others == <<csv_file, loaded, run, calls, stored_data, view_mode>>

vars == <<tab, pc, day, threshold, ds, sw, rc, events,
          today, current_time, symbols, dh, rows, others>>

\* What a run of one of the session loops leaves alone.
clock == <<today, current_time, symbols, dh, rows>>

\* The locals of a function that is not running.  Every record of locals has
\* a field bars: the number of bars of day.Close consumed so far.
Idle == [bars |-> 0]

\* The swing a step counted, as an event appended to the history.
Counted(evs, before, after, price) ==
    IF after.up > before.up THEN Append(evs, [dir |-> "up", price |-> price])
    ELSE IF after.down > before.down
         THEN Append(evs, [dir |-> "down", price |-> price])
    ELSE evs

\* ------------------------------------------------- Demo1.py detect_swings
\* Demo1.py:385  pct_from_low
PctFromLow(price, current_low) ==
    IF current_low > 0 THEN Pct(price - current_low, current_low) ELSE Zero

\* Demo1.py:386  pct_from_high
PctFromHigh(price, current_high) ==
    IF current_high > 0 THEN Pct(current_high - price, current_high) ELSE Zero

\* Demo1.py:361-362, 370-371  the early returns 0, 0
DetectNothing(prices) ==
    [up_swings |-> 0, down_swings |-> 0, bars |-> Len(prices)]

\* Demo1.py:364-377  the counters and the tracking variables, seeded from
\* prices[0]
DetectSeed(prices) ==
    [up_swings |-> 0, down_swings |-> 0,
     reference_price |-> prices[1],
     current_high |-> prices[1], current_low |-> prices[1],
     last_swing_direction |-> None,
     pct_from_low |-> Zero, pct_from_high |-> Zero,
     bars |-> 1]

\* Mutant: the up-swing condition without its direction guard.
UpSwingCondNoGuard(pfl, last, t) == GE(pfl, t)

\* Mutant: an up-swing condition that waits for a first down-swing.
UpSwingCondAfterDown(pfl, last, t) == GE(pfl, t) /\ last = "down"

\* Demo1.py:389  the guarded up-swing condition
UpSwingCond(pfl, last, t) == GE(pfl, t) /\ last # "up"

\* Demo1.py:398  the guarded down-swing condition
DownSwingCond(pfh, last, t) == GE(pfh, t) /\ last # "down"

\* Demo1.py:379-404  one iteration of the loop over prices[1:]
DetectBar(s, price, t) ==
    LET high == Max(s.current_high, price)
        low  == Min(s.current_low, price)
        pfl  == PctFromLow(price, low)
        pfh  == PctFromHigh(price, high)
        seen == [s EXCEPT !.current_high = high, !.current_low = low,
                          !.pct_from_low = pfl, !.pct_from_high = pfh,
                          !.bars = @ + 1]
    IN  IF UpSwingCond(pfl, s.last_swing_direction, t)
        THEN [seen EXCEPT !.up_swings = @ + 1,
                          !.last_swing_direction = "up",
                          !.reference_price = price,
                          !.current_high = price, !.current_low = price]
        ELSE IF DownSwingCond(pfh, s.last_swing_direction, t)
        THEN [seen EXCEPT !.down_swings = @ + 1,
                          !.last_swing_direction = "down",
                          !.reference_price = price,
                          !.current_high = price, !.current_low = price]
        ELSE seen

DetectCounts(s) == [up |-> s.up_swings, down |-> s.down_swings]

\* Demo1.py:361-377  entry: the early returns and the seeding
DetectSwingsEnter ==
    /\ tab = "detect_swings" /\ pc = "start"
    /\ IF Len(day.Close) < 2
       THEN ds' = DetectNothing(day.Close) /\ pc' = "done"
       ELSE ds' = DetectSeed(day.Close) /\ pc' = "loop"
    /\ UNCHANGED <<tab, day, threshold, sw, rc, events, clock, others>>

\* Demo1.py:379-406  one bar of the loop; the return after the last bar
DetectSwingsBar ==
    /\ tab = "detect_swings" /\ pc = "loop" /\ ds.bars < Len(day.Close)
    /\ LET price == day.Close[ds.bars + 1]
           next  == DetectBar(ds, price, threshold)
       IN  /\ ds' = next
           /\ events' = Counted(events, DetectCounts(ds), DetectCounts(next), price)
           /\ pc' = IF next.bars = Len(day.Close) THEN "done" ELSE "loop"
    /\ UNCHANGED <<tab, day, threshold, sw, rc, clock, others>>

\* ------------------------------------- update2.py SwingCounterTab.run loop
\* update2.py:1029  pct_change (ref is a positive close)
PctChange(p, ref) == Pct(p - ref, ref)

\* Mutant: the reference seeded from the first open and the loop run over
\* every close, as the reversal-cycle loop does.
SwingSeedFromOpen(d) == [up |-> 0, down |-> 0, ref |-> d.Open, bars |-> 0]

\* update2.py:1025-1026  up = down = 0, ref = prices[0]
SwingSeed(d) == [up |-> 0, down |-> 0, ref |-> d.Close[1], bars |-> 1]

\* update2.py:1030  pct_change >= swing_pct
SwingUp(p, ref, t) == GE(PctChange(p, ref), t)

\* Mutant: the sign of the down comparison turned round.
SwingDownWrongSign(p, ref, t) == GE(PctChange(p, ref), -t)

\* update2.py:1033  pct_change <= -swing_pct
SwingDown(p, ref, t) == LE(PctChange(p, ref), -t)

\* Mutant: an up swing that leaves the reference where it was.
SwingBarStaleRef(s, p, t) ==
    IF SwingUp(p, s.ref, t)
    THEN [s EXCEPT !.up = @ + 1, !.bars = @ + 1]
    ELSE IF SwingDown(p, s.ref, t)
    THEN [s EXCEPT !.down = @ + 1, !.ref = p, !.bars = @ + 1]
    ELSE [s EXCEPT !.bars = @ + 1]

\* update2.py:1028-1035  one iteration of the loop over prices[1:]
SwingBar(s, p, t) ==
    IF SwingUp(p, s.ref, t)
    THEN [s EXCEPT !.up = @ + 1, !.ref = p, !.bars = @ + 1]
    ELSE IF SwingDown(p, s.ref, t)
    THEN [s EXCEPT !.down = @ + 1, !.ref = p, !.bars = @ + 1]
    ELSE [s EXCEPT !.bars = @ + 1]

\* update2.py:1020-1026  a session of fewer than 2 bars is skipped
SwingTabEnter ==
    /\ tab = "SwingCounterTab" /\ pc = "start"
    /\ IF Len(day.Close) < 2
       THEN sw' = sw /\ pc' = "skipped"
       ELSE sw' = SwingSeed(day) /\ pc' = "loop"
    /\ UNCHANGED <<tab, day, threshold, ds, rc, events, clock, others>>

\* update2.py:1028-1037  one bar of the loop; the append after the last bar
SwingTabBar ==
    /\ tab = "SwingCounterTab" /\ pc = "loop" /\ sw.bars < Len(day.Close)
    /\ LET p    == day.Close[sw.bars + 1]
           next == SwingBar(sw, p, threshold)
       IN  /\ sw' = next
           /\ events' = Counted(events, sw, next, p)
           /\ pc' = IF next.bars = Len(day.Close) THEN "done" ELSE "loop"
    /\ UNCHANGED <<tab, day, threshold, ds, rc, clock, others>>

\* ------------------------------------ update2.py ReversalCycleTab.run loop
\* update2.py:1680-1682  cycles = 0, ref = first open, direction = None
CycleSeed(d) == [cycles |-> 0, ref |-> d.Open, direction |-> None, bars |-> 0]

\* The three branches of the loop body, with what a completed cycle and a
\* bar that continues the current direction do left open.
CycleBarWith(s, p, t, after_cycle(_), trailing, reset_on_seed) ==
    LET pct_change == PctChange(p, s.ref)
        seen == [s EXCEPT !.bars = @ + 1]
        seed(dir) == [seen EXCEPT !.direction = dir, !.ref = p,
                                  !.cycles = IF reset_on_seed THEN 0 ELSE @]
        done(dir) == [seen EXCEPT !.cycles = @ + 1,
                                  !.direction = after_cycle(dir), !.ref = p]
        keep == IF trailing /\ (  (s.direction = "up" /\ p > s.ref)
                                \/ (s.direction = "down" /\ p < s.ref))
                THEN [seen EXCEPT !.ref = p] ELSE seen
    IN  IF s.direction = None
        THEN IF GE(pct_change, t) THEN seed("up")
             ELSE IF LE(pct_change, -t) THEN seed("down")
             ELSE seen
        ELSE IF s.direction = "up" /\ LE(pct_change, -t) THEN done("down")
             ELSE IF s.direction = "down" /\ GE(pct_change, t) THEN done("up")
             ELSE keep

ToNone(dir) == None
ToItself(dir) == dir

\* Mutant: a completed cycle leaves the direction of its second leg set, so
\* every later reversal counts as a cycle.
CycleBarPingPong(s, p, t) == CycleBarWith(s, p, t, ToItself, FALSE, FALSE)

\* Mutant: the reference trails the price while the direction holds.
CycleBarTrailingRef(s, p, t) == CycleBarWith(s, p, t, ToNone, TRUE, FALSE)

\* Mutant: cycles = 0 placed where a direction is seeded.
CycleBarResetOnSeed(s, p, t) == CycleBarWith(s, p, t, ToNone, FALSE, TRUE)

\* update2.py:1684-1702  one iteration of the loop over all closes
CycleBar(s, p, t) ==
    LET pct_change == PctChange(p, s.ref)
        seen == [s EXCEPT !.bars = @ + 1]
    IN  IF s.direction = None
        THEN IF GE(pct_change, t)
             THEN [seen EXCEPT !.direction = "up", !.ref = p]
             ELSE IF LE(pct_change, -t)
             THEN [seen EXCEPT !.direction = "down", !.ref = p]
             ELSE seen
        ELSE IF s.direction = "up" /\ LE(pct_change, -t)
             THEN [seen EXCEPT !.cycles = @ + 1, !.direction = None, !.ref = p]
             ELSE IF s.direction = "down" /\ GE(pct_change, t)
             THEN [seen EXCEPT !.cycles = @ + 1, !.direction = None, !.ref = p]
             ELSE seen

\* update2.py:1676-1682  a session of fewer than 2 bars is skipped
CycleTabEnter ==
    /\ tab = "ReversalCycleTab" /\ pc = "start"
    /\ IF Len(day.Close) < 2
       THEN rc' = rc /\ pc' = "skipped"
       ELSE rc' = CycleSeed(day) /\ pc' = "loop"
    /\ UNCHANGED <<tab, day, threshold, ds, sw, events, clock, others>>

\* update2.py:1684-1704  one bar of the loop; the append after the last bar
CycleTabBar ==
    /\ tab = "ReversalCycleTab" /\ pc = "loop" /\ rc.bars < Len(day.Close)
    /\ LET next == CycleBar(rc, day.Close[rc.bars + 1], threshold)
       IN  /\ rc' = next
           /\ pc' = IF next.bars = Len(day.Close) THEN "done" ELSE "loop"
    /\ UNCHANGED <<tab, day, threshold, ds, sw, events, clock, others>>

\* ------------------------------------------ update2.py business calendar
\* update2.py:20-22  weekday() < 5, Monday being 0
is_trading_day(dt) == dt % 7 < 5

\* update2.py:28-30  the loop of get_previous_trading_day, from prev_day
RECURSIVE BackToTradingDay(_)
BackToTradingDay(prev_day) ==
    IF is_trading_day(prev_day) THEN prev_day
    ELSE BackToTradingDay(prev_day - 1)

\* update2.py:25-30
get_previous_trading_day(dt) == BackToTradingDay(dt - 1)

\* ------------------------------------- update2.py DownFromHighTab.run
\* update2.py:1106  "09:30" and "16:00", in minutes after midnight
MarketOpenTime == 570
MarketCloseTime == 960

\* update2.py:1104-1107
is_market_open(dt, now) ==
    is_trading_day(dt) /\ MarketOpenTime <= now /\ now <= MarketCloseTime

\* update2.py:1109-1116  the session and the kind of reference price
DipReference(dt, now) ==
    IF is_market_open(dt, now)
    THEN [analysis_date |-> dt, check_type |-> "current"]
    ELSE [analysis_date |-> get_previous_trading_day(dt), check_type |-> "low"]

\* df[column].max() and df[column].min() of a non-empty frame
RECURSIVE ColumnMax(_, _)
ColumnMax(df, col) ==
    IF Len(df) = 1 THEN df[1][col]
    ELSE Max(df[1][col], ColumnMax(Tail(df), col))

RECURSIVE ColumnMin(_, _)
ColumnMin(df, col) ==
    IF Len(df) = 1 THEN df[1][col]
    ELSE Min(df[1][col], ColumnMin(Tail(df), col))

\* update2.py:1131-1136  the reference price
DipCurrent(df, check_type) ==
    IF check_type = "current" THEN df[Len(df)].Close
    ELSE ColumnMin(df, "Low")

\* update2.py:1139  drop = (high - current) / high * 100, on numpy floats:
\* a high of 0 gives nan or an infinity, not an exception
DropPct(high, current) == Pct(high - current, high)

\* update2.py:1125-1148  the body of the loop for one symbol and its frame
DipSymbol(sym, df, ref, t) ==
    IF df = <<>> THEN [computed |-> FALSE, reported |-> FALSE]
    ELSE LET high    == ColumnMax(df, "High")
             current == DipCurrent(df, ref.check_type)
             drop    == DropPct(high, current)
         IN  [computed |-> TRUE, reported |-> ~LT(drop, t),
              sym |-> sym, high |-> high, current |-> current, drop |-> drop]

\* update2.py:1091-1116  the start of a scan: no symbols, or the reference
DownFromHighStart ==
    /\ tab = "DownFromHighTab" /\ pc = "start"
    /\ rows' = <<>>
    /\ IF symbols = <<>>
       THEN dh' = dh /\ pc' = "returned"
       ELSE /\ dh' = [bars |-> 0, idx |-> 0, df |-> <<>>,
                      ref |-> DipReference(today, current_time),
                      out |-> [computed |-> FALSE, reported |-> FALSE]]
            /\ pc' = "loop"
    /\ UNCHANGED <<tab, day, threshold, ds, sw, rc, events,
                   today, current_time, symbols, others>>

\* The frames the provider can return for one session: no bar, or up to
\* two bars.
DipBars ==
    {b \in [High : {0, 105}, Low : {0, 98}, Close : {0, 98, 105}] :
        b.Low <= b.Close /\ b.Close <= b.High}

DipFrames == SeqsUpTo(DipBars, 2)

\* update2.py:1118-1151  one symbol of the scan: the fetch of the session
\* of analysis_date, the drop and the row
DownFromHighSymbol ==
    /\ tab = "DownFromHighTab" /\ pc = "loop" /\ dh.idx < Len(symbols)
    /\ \E df \in DipFrames :
          LET sym == symbols[dh.idx + 1]
              out == DipSymbol(sym, df, dh.ref, threshold)
          IN  /\ dh' = [dh EXCEPT !.idx = @ + 1, !.df = df, !.out = out]
              /\ rows' = IF out.reported
                         THEN Append(rows, [sym |-> sym, current |-> out.current,
                                            high |-> out.high, drop |-> out.drop])
                         ELSE rows
    /\ pc' = IF dh.idx + 1 = Len(symbols) THEN "done" ELSE "loop"
    /\ UNCHANGED <<tab, day, threshold, ds, sw, rc, events,
                   today, current_time, symbols, others>>

\* ------------------------------------------------------------------ specs
\* Closes whose last bar is 3 % above the running low and 5 % below the
\* running high, after a down-swing at the second bar.
BetweenLowAndHighCloses == <<112, 106, 97, 100>>

\* price_data of detect_swings: any number of bars, zero prices included.
DetectSessions ==
    {[Open |-> o, Close |-> c] :
        o \in Opens,
        c \in SeqsUpTo(PricesWithZero, MaxLen)
                \cup {Scenario1Closes, BetweenLowAndHighCloses}}

\* A group of data.groupby("date"): at least one bar, positive prices.
TabSessions ==
    {[Open |-> o, Close |-> c] :
        o \in Opens,
        c \in (SeqsUpTo(Prices, MaxLen) \ {<<>>})
                 \cup {Scenario1Closes, Scenario2Closes}}

\* Thresholds of the dip scan.
DipThresholds == {5, 7, 100}

\* The days of one week, Monday to Sunday, as day numbers.
Todays == 7..13

\* Times of day: 09:29, 09:30, 12:00, 16:00, 16:01.
Times == {569, 570, 720, 960, 961}

\* The symbol lists of a scan: none, one or two symbols.
SymbolLists == {<<>>, <<"AAPL">>, <<"AAPL", "MSFT">>}

NoSession == [Open |-> 0, Close |-> <<>>]

\* No symbol file read or written, no run of a tab started.
OthersIdle ==
    /\ csv_file = <<>> /\ loaded = <<>>
    /\ run = Idle /\ calls = <<>>
    /\ stored_data = <<>> /\ view_mode = "detailed"

\* A behaviour is one call of detect_swings, one session of the swing or of
\* the reversal-cycle tab, or one scan of the dip tab.
InitSession ==
    /\ tab \in {"detect_swings", "SwingCounterTab", "ReversalCycleTab"}
    /\ threshold \in Thresholds
    /\ day \in IF tab = "detect_swings" THEN DetectSessions ELSE TabSessions
    /\ today = 7 /\ current_time = 0
    /\ symbols = <<>>

InitScan ==
    /\ tab = "DownFromHighTab"
    /\ threshold \in DipThresholds
    /\ day = NoSession
    /\ today \in Todays /\ current_time \in Times
    /\ symbols \in SymbolLists

Init ==
    /\ InitSession \/ InitScan
    /\ pc = "start"
    /\ ds = Idle
    /\ sw = Idle
    /\ rc = Idle
    /\ events = <<>>
    /\ dh = Idle
    /\ rows = <<>>
    /\ OthersIdle

Next ==
    \/ DetectSwingsEnter
    \/ DetectSwingsBar
    \/ SwingTabEnter
    \/ SwingTabBar
    \/ CycleTabEnter
    \/ CycleTabBar
    \/ DownFromHighStart
    \/ DownFromHighSymbol

Spec == Init /\ [][Next]_vars

\* ================================================================= claims
Running(t) == tab = t /\ pc \in {"loop", "done"}

Alternates(evs) == \A k \in 1..(Len(evs) - 1) : evs[k].dir # evs[k + 1].dir

Ups(evs) == Cardinality({k \in 1..Len(evs) : evs[k].dir = "up"})
Downs(evs) == Cardinality({k \in 1..Len(evs) : evs[k].dir = "down"})

\* C1: in detect_swings the counted swings strictly alternate in direction
\* (the history of counted swings is the one the counters count), so after
\* every bar up_swings and down_swings differ by at most 1.
C1_DetectSwingsAlternate ==
    Running("detect_swings") =>
        /\ ds.up_swings = Ups(events) /\ ds.down_swings = Downs(events)
        /\ Alternates(events)
        /\ ds.up_swings - ds.down_swings \in {-1, 0, 1}

\* An up, a down and an up swing counted in one session.
C1_Witness ==
    /\ Running("detect_swings")
    /\ Len(events) >= 3
    /\ events[1].dir = "up" /\ events[2].dir = "down" /\ events[3].dir = "up"

MeasuredFrom(k) == IF k = 1 THEN day.Close[1] ELSE events[k - 1].price

Scenario1Done ==
    /\ tab = "detect_swings" /\ pc = "done"
    /\ day.Close = Scenario1Closes /\ threshold = 5

\* C3 as stated: detect_swings on the closes 100, 106, 103, 112, 108 with
\* threshold 5 returns 2 up swings and 0 down swings.
C3_Scenario1TwoUp ==
    Scenario1Done => ds.up_swings = 2 /\ ds.down_swings = 0

\* C3 amended: detect_swings on the closes 100, 106, 103, 112, 108 with
\* threshold 5 returns 1 up swing and 0 down swings (the move 103 -> 112 is
\* blocked by the direction guard).
C3_Scenario1OneUp ==
    Scenario1Done => ds.up_swings = 1 /\ ds.down_swings = 0

C3_Witness == Scenario1Done /\ ds.bars = 5

\* C4: after any number of bars, up + down <= max(0, bars - 1), in
\* detect_swings and in the session loop of SwingCounterTab.run; at the end
\* bars is the length of the session.
C4_SwingUpperBound ==
    /\ tab = "detect_swings" /\ pc # "start" =>
          /\ ds.up_swings + ds.down_swings <= Max(0, ds.bars - 1)
          /\ ds.bars <= Len(day.Close)
          /\ pc = "done" => ds.bars = Len(day.Close)
    /\ Running("SwingCounterTab") =>
          /\ sw.up + sw.down <= Max(0, sw.bars - 1)
          /\ sw.bars <= Len(day.Close)
          /\ pc = "done" => sw.bars = Len(day.Close)

\* A session of at least 3 bars in which every bar after the first counted.
C4_Witness ==
    /\ tab = "SwingCounterTab" /\ pc = "done"
    /\ Len(day.Close) >= 3
    /\ sw.up + sw.down = Len(day.Close) - 1

\* The locals of the reversal-cycle loop after the first k bars of d.
RECURSIVE CycleAfter(_, _, _)
CycleAfter(d, k, t) ==
    IF k = 0 THEN CycleSeed(d)
    ELSE CycleBar(CycleAfter(d, k - 1, t), d.Close[k], t)

\* The cycle count of the session made of the first k bars of d (a session
\* of fewer than 2 bars is skipped and counts nothing).
CycleCount(d, k, t) == IF k < 2 THEN 0 ELSE CycleAfter(d, k, t).cycles

\* C5: the cycle count of every prefix of the bars consumed so far is at
\* most the count the loop holds now.
C5_CycleMonotone ==
    Running("ReversalCycleTab") =>
        \A k \in 0..rc.bars : CycleCount(day, k, threshold) <= rc.cycles

\* A finished session with a cycle, a prefix of which has none yet.
C5_Witness ==
    /\ tab = "ReversalCycleTab" /\ pc = "done"
    /\ rc.cycles >= 1
    /\ \E k \in 2..(rc.bars - 1) : CycleCount(day, k, threshold) < rc.cycles

\* C6: every counted cycle takes two bars and a seeded direction one more,
\* so 2 * cycles (+ 1 while a direction is set) <= bars consumed.
C6_CycleTakesTwoBars ==
    Running("ReversalCycleTab") =>
        2 * rc.cycles + (IF rc.direction = None THEN 0 ELSE 1) <= rc.bars

\* Two cycles counted in four bars.
C6_Witness ==
    Running("ReversalCycleTab") /\ rc.cycles = 2 /\ rc.bars = 4

Scenario2 ==
    /\ Running("ReversalCycleTab")
    /\ day.Open = 100 /\ day.Close = Scenario2Closes /\ threshold = 3

\* C7: open 100, closes 100, 103, 106, 101, 97, threshold 3: the bar 103
\* sets direction up with reference 103, 106 leaves the reference, 101
\* completes no cycle and 97 completes exactly one.
C7_Scenario2OneCycle ==
    Scenario2 =>
        /\ rc.bars = 1 => rc.direction = None /\ rc.ref = 100 /\ rc.cycles = 0
        /\ rc.bars = 2 => rc.direction = "up" /\ rc.ref = 103 /\ rc.cycles = 0
        /\ rc.bars = 3 => rc.direction = "up" /\ rc.ref = 103 /\ rc.cycles = 0
        /\ rc.bars = 4 => rc.direction = "up" /\ rc.ref = 103 /\ rc.cycles = 0
        /\ rc.bars = 5 => rc.direction = None /\ rc.ref = 97 /\ rc.cycles = 1
        /\ pc = "done" <=> rc.bars = 5

C7_Witness == Scenario2 /\ pc = "done"

Flat(d) == \A k \in 1..Len(d.Close) : d.Close[k] = d.Close[1]

\* C8: a session whose closes are all the same, whatever its first open,
\* counts no up swing, no down swing and no cycle.
C8_FlatSessionCountsNothing ==
    Flat(day) =>
        /\ tab = "detect_swings" /\ pc # "start" =>
              ds.up_swings = 0 /\ ds.down_swings = 0
        /\ Running("SwingCounterTab") => sw.up = 0 /\ sw.down = 0
        /\ Running("ReversalCycleTab") => rc.cycles = 0

\* A flat session of at least 3 bars whose first open is a threshold away
\* from its closes, so that the cycle loop has seeded a direction.
C8_Witness ==
    /\ Flat(day) /\ Len(day.Close) >= 3
    /\ tab = "ReversalCycleTab" /\ pc = "done"
    /\ rc.direction # None

\* The locals of detect_swings after the first k bars (k >= 1) of prices.
RECURSIVE DetectAfter(_, _, _)
DetectAfter(prices, k, t) ==
    IF k = 1 THEN DetectSeed(prices)
    ELSE DetectBar(DetectAfter(prices, k - 1, t), prices[k], t)

\* The running low and high the percentages of the latest bar were taken
\* from (Demo1.py:381-382, before a swing resets them).
LowAtBar ==
    Min(DetectAfter(day.Close, ds.bars - 1, threshold).current_low,
        day.Close[ds.bars])
HighAtBar ==
    Max(DetectAfter(day.Close, ds.bars - 1, threshold).current_high,
        day.Close[ds.bars])

\* The part of C9 about detect_swings: a running low (high) of 0 gives a
\* pct_from_low (pct_from_high) of 0.
C9_DetectSwingsGuarded ==
    Running("detect_swings") /\ ds.bars >= 2 =>
        /\ LowAtBar = 0 => IsZero(ds.pct_from_low)
        /\ HighAtBar = 0 => IsZero(ds.pct_from_high)

\* The part of C9 about the dip scan: a session high of 0 gives a drop of 0.
C9_DipGuarded ==
    Running("DownFromHighTab") /\ dh.out.computed /\ dh.out.high = 0 =>
        IsZero(dh.out.drop)

\* C9: a running low or high of 0 in detect_swings, or a session high of 0
\* in the dip scan, raises nothing and gives a percentage of 0.
C9_ZeroDivisionSafe == C9_DetectSwingsGuarded /\ C9_DipGuarded

\* Regular hours, as is_market_open takes them: 09:30 to 16:00 inclusive.
WithinRegularHours(now) == MarketOpenTime <= now /\ now <= MarketCloseTime

\* The regular session of the trading day d has ended at (dt, now).
SessionEnded(d, dt, now) == d < dt \/ (d = dt /\ now > MarketCloseTime)

\* The latest trading day whose regular session has ended at (dt, now).
MostRecentCompleted(dt, now) ==
    CHOOSE d \in (dt - 7)..dt :
        /\ is_trading_day(d) /\ SessionEnded(d, dt, now)
        /\ \A e \in (dt - 7)..dt :
              is_trading_day(e) /\ SessionEnded(e, dt, now) => e <= d

\* C10: during regular hours of a trading day the dip scan takes today's
\* session and its latest close; otherwise it takes the most recent
\* completed trading day and that session's low.
C10_DipReferenceSession ==
    Running("DownFromHighTab") =>
        IF is_trading_day(today) /\ WithinRegularHours(current_time)
        THEN /\ dh.ref.analysis_date = today
             /\ dh.out.computed => dh.out.current = dh.df[Len(dh.df)].Close
        ELSE /\ dh.ref.analysis_date = MostRecentCompleted(today, current_time)
             /\ dh.out.computed => dh.out.current = ColumnMin(dh.df, "Low")

\* The part of C11 about a session with a positive high: the symbol is
\* reported exactly when (high - reference) / high * 100 >= threshold.
C11_DipReportedPositiveHigh ==
    Running("DownFromHighTab") /\ dh.out.computed /\ dh.out.high > 0 =>
        /\ dh.out.reported <=>
              (dh.out.high - dh.out.current) * 100 >= threshold * dh.out.high
        /\ (dh.out.reported /\ dh.idx = Len(rows)) => rows[Len(rows)].sym = dh.out.sym

\* The part of C11 about scenario 4: a session of low 98 and high 105,
\* scanned outside market hours, is reported for threshold 5 and not for 7.
C11_Scenario4 ==
    /\ Running("DownFromHighTab") /\ dh.out.computed
    /\ dh.ref.check_type = "low"
    /\ dh.out.high = 105 /\ ColumnMin(dh.df, "Low") = 98
    => /\ threshold = 5 => dh.out.reported
       /\ threshold = 7 => ~dh.out.reported

\* C11: the dip scan reports a symbol if and only if its drop_pct is >=
\* threshold (equality included); low 98 and high 105 outside market hours
\* are reported for threshold 5 and not for threshold 7.
C11_DipReportedIffDrop ==
    /\ Running("DownFromHighTab") /\ dh.out.computed =>
          (dh.out.reported <=> GE(dh.out.drop, threshold))
    /\ C11_Scenario4

\* ======================================================= the symbol file
\* A string is the sequence of its character codes: 32 is a space, 65..90
\* are A..Z and 97..122 are a..z.  The symbol file is the sequence of its
\* rows; csv.writer writes one field per row, and a field made of letters
\* needs no quoting, so a row is the string of its field.
AAPL == <<65, 65, 80, 76>>
MSFT == <<77, 83, 70, 84>>
GOOGL == <<71, 79, 79, 71, 76>>
TSLA == <<84, 83, 76, 65>>

\* str.upper()
upper(s) == [i \in 1..Len(s) |-> IF s[i] \in 97..122 THEN s[i] - 32 ELSE s[i]]

\* str.lstrip() and str.rstrip() of spaces, and str.strip()
RECURSIVE lstrip(_)
lstrip(s) == IF s # <<>> /\ Head(s) = 32 THEN lstrip(Tail(s)) ELSE s

RECURSIVE rstrip(_)
rstrip(s) ==
    IF s # <<>> /\ s[Len(s)] = 32 THEN rstrip(SubSeq(s, 1, Len(s) - 1)) ELSE s

strip(s) == rstrip(lstrip(s))

\* a < b for two strings: Python compares them code by code, and a proper
\* prefix is smaller.
RECURSIVE StrLess(_, _)
StrLess(a, b) ==
    IF b = <<>> THEN FALSE
    ELSE IF a = <<>> THEN TRUE
    ELSE IF Head(a) # Head(b) THEN Head(a) < Head(b)
    ELSE StrLess(Tail(a), Tail(b))

\* set(symbols) and sorted(...) of a set of strings
set(syms) == {syms[i] : i \in DOMAIN syms}

RECURSIVE sorted(_)
sorted(S) ==
    IF S = {} THEN <<>>
    ELSE LET least == CHOOSE a \in S : \A b \in S \ {a} : StrLess(a, b)
         IN  <<least>> \o sorted(S \ {least})

\* The rows save_symbols(syms) writes: the distinct strings of the list
\* in sorted order, the blank ones left out, each stripped and upper-cased
\* when it is written.
NotBlank(s) == strip(s) # <<>>

save_symbols(syms) ==
    LET kept == SelectSeq(sorted(set(syms)), NotBlank)
    IN  [i \in 1..Len(kept) |-> upper(strip(kept[i]))]

\* load_symbols() on a file of these rows
load_symbols(file) ==
    LET kept == SelectSeq(file, NotBlank)
    IN  [i \in 1..Len(kept) |-> upper(strip(kept[i]))]

\* str.lower(), used to write the inputs below
Lower(s) == [i \in 1..Len(s) |-> IF s[i] \in 65..90 THEN s[i] + 32 ELSE s[i]]

\* The strings a caller passes: empty, blank, one or two letters in either
\* case, with and without a space around them.
Tickers ==
    {<<>>, <<32>>, <<65>>, <<97>>, <<66>>, <<98>>,
     <<97, 32>>, <<32, 65>>, <<65, 66>>, <<97, 66>>}

\* The lists passed to save_symbols: up to MaxSymbols strings, and the list
\* ["aapl", "AAPL", "msft"].
MaxSymbols == 2
SymbolInputs ==
    SeqsUpTo(Tickers, MaxSymbols) \cup {<<Lower(AAPL), AAPL, Lower(MSFT)>>}

\* StockUniverse.__init__ on a machine without a symbol file
DefaultSymbols == <<AAPL, MSFT, GOOGL, TSLA>>

\* universe.save_symbols(syms), for a list typed, uploaded or selected
SaveSymbols ==
    /\ tab = "StockUniverse"
    /\ \E syms \in SymbolInputs :
          /\ csv_file' = save_symbols(syms)
          /\ run' = [bars |-> 0, symbols |-> syms]
    /\ pc' = "saved"
    /\ UNCHANGED <<tab, day, threshold, ds, sw, rc, events, clock,
                   loaded, calls, stored_data, view_mode>>

\* universe.load_symbols()
LoadSymbols ==
    /\ tab = "StockUniverse"
    /\ pc \in {"start", "saved", "resaved"}
    /\ loaded' = load_symbols(csv_file)
    /\ pc' = "loaded"
    /\ UNCHANGED <<tab, day, threshold, ds, sw, rc, events, clock,
                   csv_file, run, calls, stored_data, view_mode>>

\* universe.save_symbols(universe.load_symbols()): the list just loaded is
\* saved as it is.
SaveLoaded ==
    /\ tab = "StockUniverse"
    /\ pc = "loaded"
    /\ csv_file' = save_symbols(loaded)
    /\ run' = [bars |-> 0, symbols |-> loaded]
    /\ pc' = "resaved"
    /\ UNCHANGED <<tab, day, threshold, ds, sw, rc, events, clock,
                   loaded, calls, stored_data, view_mode>>

\* The session loops and the scan are idle while the symbol file is used.
Part1Idle ==
    /\ day = NoSession /\ threshold = 5
    /\ ds = Idle /\ sw = Idle /\ rc = Idle /\ dh = Idle
    /\ events = <<>> /\ rows = <<>>
    /\ today = 7 /\ current_time = 0 /\ symbols = <<>>

InitUniverse ==
    /\ tab = "StockUniverse" /\ pc = "start"
    /\ Part1Idle
    /\ csv_file = save_symbols(DefaultSymbols)
    /\ run = [bars |-> 0, symbols |-> DefaultSymbols]
    /\ loaded = <<>>
    /\ calls = <<>> /\ stored_data = <<>> /\ view_mode = "detailed"

NextUniverse == SaveSymbols \/ LoadSymbols \/ SaveLoaded

SpecUniverse == InitUniverse /\ [][NextUniverse]_vars

IsUpper(syms) == \A i \in DOMAIN syms : syms[i] = upper(syms[i])
NoDuplicates(syms) ==
    \A i, j \in DOMAIN syms : i # j => syms[i] # syms[j]
IsSorted(syms) ==
    \A i, j \in DOMAIN syms : i < j => ~StrLess(syms[j], syms[i])

\* The part of C17 that holds: what is loaded is always upper-cased, and
\* for a list of stripped upper-case strings it is the sorted list of the
\* distinct non-empty strings of the list.
C17_LoadedIsUpper ==
    tab = "StockUniverse" /\ pc = "loaded" => IsUpper(loaded)

C17_NormalizedRoundTrip ==
    /\ tab = "StockUniverse" /\ pc = "loaded"
    /\ \A i \in DOMAIN run.symbols : run.symbols[i] = upper(strip(run.symbols[i]))
    => /\ NoDuplicates(loaded) /\ IsSorted(loaded)
       /\ set(loaded) = set(run.symbols) \ {<<>>}

\* C17: save_symbols(L) followed by load_symbols() returns an upper-cased,
\* duplicate-free, sorted list; saving ["aapl", "AAPL", "msft"] and loading
\* returns ["AAPL", "MSFT"].
C17_SaveLoadNormalized ==
    tab = "StockUniverse" /\ pc = "loaded" =>
        /\ IsUpper(loaded) /\ NoDuplicates(loaded) /\ IsSorted(loaded)
        /\ run.symbols = <<Lower(AAPL), AAPL, Lower(MSFT)>> =>
               loaded = <<AAPL, MSFT>>

\* The part of C18 that holds: a file without duplicate rows and with its
\* rows in order is written back as it was.
C18_ResaveNormalFile ==
    [][tab = "StockUniverse" /\ pc' = "resaved"
       /\ NoDuplicates(csv_file) /\ IsSorted(csv_file)
       => csv_file' = csv_file]_vars

\* C18: save_symbols(load_symbols()) leaves every persisted symbol file,
\* every file save_symbols can produce included, as it was.
C18_ResaveIdentical ==
    [][tab = "StockUniverse" /\ pc' = "resaved" => csv_file' = csv_file]_vars

\* ===================================================== the runs of a tab
\* A run walks the symbol list and asks the provider for each symbol.  The
\* provider raises, returns an empty frame, or returns a frame: the
\* sequence of its sessions (the groups of data.groupby("date")), a session
\* being [Open |-> first bar's open, Close |-> closes]; the date of a
\* session is its position in the frame.
Raised == "raise"

\* sum of f[i] over the sequence f
RECURSIVE Sum(_)
Sum(f) == IF f = <<>> THEN 0 ELSE Head(f) + Sum(Tail(f))

\* f"{total / n:.2f}" as a number of hundredths: the quotient rounded to
\* the nearest hundredth (a tie needs a quotient of the form x.yz5 that a
\* float holds exactly, which takes n divisible by 8; it goes to the even
\* hundredth).
Format2(total, n) ==
    LET q == (100 * total) \div n
        r == (100 * total) % n
    IN  IF 2 * r < n THEN q
        ELSE IF 2 * r > n THEN q + 1
        ELSE IF q % 2 = 0 THEN q ELSE q + 1

\* update2.py:33-47  get_trading_days_back(days) on the day dt
RECURSIVE TradingDaysBefore(_, _)
TradingDaysBefore(dt, n) ==
    IF n <= 0 THEN dt ELSE TradingDaysBefore(get_previous_trading_day(dt), n - 1)

\* Mutant: one trading day too many before the end date.
get_trading_days_back_one_more(days, dt) ==
    LET end_date == BackToTradingDay(dt)
    IN  [start_date |-> TradingDaysBefore(end_date, days),
         end_date |-> end_date]

get_trading_days_back(days, dt) ==
    LET end_date == BackToTradingDay(dt)
    IN  [start_date |-> TradingDaysBefore(end_date, days - 1),
         end_date |-> end_date]

\* update2.py:121  duration_var, which no control changes
duration_var == 1

\* update2.py:17  the provider's limit for 1-minute data, in days
MAX_DAYS_1M == 8

\* update2.py:120  interval_var; the runs are taken at this interval
interval_var == "1m"

\* update2.py:785-798  get_date_range(): the two date fields as parsed (0
\* for a field that does not parse), or the fallback on duration_var if
\* one of them does not parse.
get_date_range(start, end, dt) ==
    IF start = 0 \/ end = 0
    THEN get_trading_days_back(Max(1, duration_var), dt)
    ELSE [start_date |-> start, end_date |-> end]

\* update2.py:1025-1035  the loop over prices[1:] after k bars of session d
RECURSIVE SwingAfter(_, _, _)
SwingAfter(d, k, t) ==
    IF k <= 1 THEN SwingSeed(d)
    ELSE SwingBar(SwingAfter(d, k - 1, t), d.Close[k], t)

\* Mutant: a session of one bar is kept, with no swing.
RECURSIVE DailySwingsKeepShort(_, _, _)
DailySwingsKeepShort(frame, date, t) ==
    IF date > Len(frame) THEN <<>>
    ELSE LET d == frame[date]
             s == SwingAfter(d, Len(d.Close), t)
         IN  <<[date |-> date, up |-> s.up, down |-> s.down,
                total |-> s.up + s.down]>>
             \o DailySwingsKeepShort(frame, date + 1, t)

\* update2.py:1020-1037  daily_swings: one entry per session of at least 2
\* bars, in the order of the dates
RECURSIVE DailySwings(_, _, _)
DailySwings(frame, date, t) ==
    IF date > Len(frame) THEN <<>>
    ELSE LET d == frame[date]
             s == SwingAfter(d, Len(d.Close), t)
         IN  (IF Len(d.Close) < 2 THEN <<>>
              ELSE <<[date |-> date, up |-> s.up, down |-> s.down,
                      total |-> s.up + s.down]>>)
             \o DailySwings(frame, date + 1, t)

Column(f, col) == [i \in DOMAIN f |-> f[i][col]]

\* update2.py:1039-1055  the parent row of a symbol and its child rows;
\* nothing for a symbol without a retained session
SwingRows(sym, frame, t) ==
    LET daily_swings == DailySwings(frame, 1, t)
        total_all == Sum(Column(daily_swings, "total"))
    IN  IF daily_swings = <<>> THEN <<>>
        ELSE <<[sym |-> sym,
                up |-> Sum(Column(daily_swings, "up")),
                down |-> Sum(Column(daily_swings, "down")),
                total |-> total_all,
                avg |-> Format2(total_all, Len(daily_swings)),
                children |-> daily_swings]>>

\* update2.py:1676-1706  daily_cycles: one entry per session of at least 2
\* bars, in the order of the dates
RECURSIVE DailyCycles(_, _, _)
DailyCycles(frame, date, t) ==
    IF date > Len(frame) THEN <<>>
    ELSE LET d == frame[date]
         IN  (IF Len(d.Close) < 2 THEN <<>>
              ELSE <<[date |-> date,
                      cycles |-> CycleAfter(d, Len(d.Close), t).cycles]>>)
             \o DailyCycles(frame, date + 1, t)

\* update2.py:1708-1720  the parent row of a symbol ("N days" as N) and its
\* child rows; nothing for a symbol without a retained session
CycleRows(sym, frame, t) ==
    LET daily_cycles == DailyCycles(frame, 1, t)
        total_cycles == Sum(Column(daily_cycles, "cycles"))
    IN  IF daily_cycles = <<>> THEN <<>>
        ELSE <<[sym |-> sym,
                total |-> total_cycles,
                avg |-> Format2(total_cycles, Len(daily_cycles)),
                days |-> Len(daily_cycles),
                children |-> daily_cycles]>>

\* What the provider answers to one call: it raises, or returns data, an
\* empty frame included.
Outcome(raised, data) == [raised |-> raised, data |-> data]

\* Mutant: an exception ends the loop over the symbols.
NextSymbolAbort(idx, outcome, total_symbols) ==
    IF outcome.raised THEN total_symbols ELSE idx + 1

\* update2.py:1006-1059  the try/except is inside the loop body: whatever
\* the symbol did, the loop goes on with the next one.
NextSymbol(idx, outcome, total_symbols) == idx + 1

\* The sessions a frame is made of: one bar, two bars without a move of 3%,
\* a move up from the open and down again, and that twice.
RunSessions ==
    {[Open |-> 100, Close |-> c] :
        c \in {<<100>>, <<100, 101>>, <<103, 97>>, <<103, 97, 100, 97>>}}

\* The frames of at most MaxDays sessions, and the provider's answers.
MaxDays == 2
Frames == SeqsUpTo(RunSessions, MaxDays)
Outcomes == {Outcome(TRUE, <<>>)} \cup {Outcome(FALSE, f) : f \in Frames}

\* The locals of a run that has read its configuration.
RunLocals(range) ==
    [bars |-> 0, idx |-> 0, start |-> run.start, end |-> run.end,
     start_date |-> range.start_date, end_date |-> range.end_date]

\* update2.py:993-1004  SwingCounterTab.run up to the loop: the tree is
\* emptied, and without symbols the run returns.
SwingRunStart ==
    /\ tab = "SwingCounterTab.run" /\ pc = "start"
    /\ rows' = <<>>
    /\ IF symbols = <<>>
       THEN run' = run /\ pc' = "returned"
       ELSE /\ run' = RunLocals(get_date_range(run.start, run.end, today))
            /\ pc' = "loop"
    /\ UNCHANGED <<tab, day, threshold, ds, sw, rc, events, dh,
                   today, current_time, symbols,
                   csv_file, loaded, calls, stored_data, view_mode>>

\* update2.py:1006-1061  one symbol of SwingCounterTab.run
SwingRunSymbol ==
    /\ tab = "SwingCounterTab.run" /\ pc = "loop"
    /\ \E outcome \in Outcomes :
          LET sym == symbols[run.idx + 1]
              next == NextSymbol(run.idx, outcome, Len(symbols))
          IN  /\ calls' = Append(calls, [sym |-> sym, outcome |-> outcome,
                                         start |-> run.start_date,
                                         end |-> run.end_date + 1])
              /\ rows' = IF outcome.raised THEN rows
                         ELSE rows \o SwingRows(sym, outcome.data, threshold)
              /\ run' = [run EXCEPT !.idx = next]
              /\ pc' = IF next >= Len(symbols) THEN "done" ELSE "loop"
    /\ UNCHANGED <<tab, day, threshold, ds, sw, rc, events, dh,
                   today, current_time, symbols,
                   csv_file, loaded, stored_data, view_mode>>

\* update2.py:1650-1661  ReversalCycleTab.run up to the loop
CycleRunStart ==
    /\ tab = "ReversalCycleTab.run" /\ pc = "start"
    /\ rows' = <<>>
    /\ IF symbols = <<>>
       THEN run' = run /\ pc' = "returned"
       ELSE /\ run' = RunLocals(get_date_range(run.start, run.end, today))
            /\ pc' = "loop"
    /\ UNCHANGED <<tab, day, threshold, ds, sw, rc, events, dh,
                   today, current_time, symbols,
                   csv_file, loaded, calls, stored_data, view_mode>>

\* update2.py:1663-1724  one symbol of ReversalCycleTab.run
CycleRunSymbol ==
    /\ tab = "ReversalCycleTab.run" /\ pc = "loop"
    /\ \E outcome \in Outcomes :
          LET sym == symbols[run.idx + 1]
              next == NextSymbol(run.idx, outcome, Len(symbols))
          IN  /\ calls' = Append(calls, [sym |-> sym, outcome |-> outcome,
                                         start |-> run.start_date,
                                         end |-> run.end_date + 1])
              /\ rows' = IF outcome.raised THEN rows
                         ELSE rows \o CycleRows(sym, outcome.data, threshold)
              /\ run' = [run EXCEPT !.idx = next]
              /\ pc' = IF next >= Len(symbols) THEN "done" ELSE "loop"
    /\ UNCHANGED <<tab, day, threshold, ds, sw, rc, events, dh,
                   today, current_time, symbols,
                   csv_file, loaded, stored_data, view_mode>>

\* ------------------------------------------- Demo1.py StockSwingCounter
\* The application's fields are kept in run: is_analyzing, stop_analysis,
\* the state of the two buttons, self.results, the loop index idx, the
\* symbols whose analysis was started and the message box shown last.  pc
\* is the position of the worker thread: "none" when there is no worker,
\* "entry" at the top of run_analysis, "check" at the top of the loop and
\* "analyze" inside analyze_stock.

\* Demo1.py:344-406  detect_swings as a function of the closes
detect_swings(prices, t) ==
    DetectCounts(IF Len(prices) < 2 THEN DetectNothing(prices)
                 ELSE DetectAfter(prices, Len(prices), t))

\* price_data['Close'].values: the closes of all the sessions of the frame
RECURSIVE Closes(_)
Closes(frame) ==
    IF frame = <<>> THEN <<>> ELSE Head(frame).Close \o Closes(Tail(frame))

\* Demo1.py:408-448  analyze_stock on a symbol whose fetch did not fail
analyze_stock(symbol, data, swing_threshold) ==
    LET counts == detect_swings(Closes(data), swing_threshold)
    IN  [symbol |-> symbol, up_swings |-> counts.up,
         down_swings |-> counts.down,
         total_swings |-> counts.up + counts.down]

\* Demo1.py:487  results.sort(key = total_swings, reverse = True): a stable
\* sort, so results of equal total keep their order
RECURSIVE SortResults(_)
SortResults(results) ==
    IF results = <<>> THEN <<>>
    ELSE LET last == results[Len(results)]
             front == SortResults(SubSeq(results, 1, Len(results) - 1))
             keep == {i \in DOMAIN front :
                         front[i].total_swings >= last.total_swings}
             n == Cardinality(keep)
         IN  SubSeq(front, 1, n) \o <<last>> \o SubSeq(front, n + 1, Len(front))

\* Demo1.py:452  the check of the swing percentage
ThresholdRejected(swing_threshold) ==
    swing_threshold <= 0 \/ swing_threshold > 100

\* Demo1.py:529-546  start_analysis (the Run button): nothing while a run is
\* in progress; else the flags and buttons are set, the results cleared and
\* the worker started.
StartAnalysis ==
    /\ tab = "Demo1" /\ pc = "none"
    /\ run.run_button = "normal" /\ ~run.is_analyzing
    /\ run' = [run EXCEPT !.is_analyzing = TRUE, !.stop_analysis = FALSE,
                          !.run_button = "disabled", !.stop_button = "normal",
                          !.results = <<>>, !.idx = 0, !.started = <<>>,
                          !.message = "none", !.returned = <<>>,
                          !.stopped = FALSE, !.count = 0]
    /\ rows' = <<>>
    /\ calls' = <<>>
    /\ pc' = "entry"
    /\ UNCHANGED <<tab, day, threshold, ds, sw, rc, events, dh,
                   today, current_time, symbols,
                   csv_file, loaded, stored_data, view_mode>>

\* Demo1.py:548-553  stop_analysis_process (the Stop button)
StopAnalysisProcess ==
    /\ tab = "Demo1"
    /\ run.stop_button = "normal"
    /\ run.is_analyzing
    /\ run' = [run EXCEPT !.stop_analysis = TRUE, !.stop_button = "disabled"]
    /\ UNCHANGED <<tab, pc, day, threshold, ds, sw, rc, events, dh,
                   today, current_time, symbols, rows,
                   csv_file, loaded, calls, stored_data, view_mode>>

\* Demo1.py:450-463  run_analysis up to the loop: an invalid swing
\* percentage is reported and the run returns
RunAnalysisEnter ==
    /\ tab = "Demo1" /\ pc = "entry"
    /\ IF ThresholdRejected(threshold)
       THEN /\ run' = [run EXCEPT !.is_analyzing = FALSE,
                                  !.message = "Invalid Input"]
            /\ pc' = "none"
       ELSE /\ run' = [run EXCEPT !.results = <<>>, !.idx = 0]
            /\ pc' = "check"
    /\ UNCHANGED <<tab, day, threshold, ds, sw, rc, events, dh,
                   today, current_time, symbols, rows,
                   csv_file, loaded, calls, stored_data, view_mode>>

\* A loop that never reads the stop flag.
LoopExitIgnoresStop(idx, stop_analysis, total_stocks) ==
    idx >= total_stocks

\* Demo1.py:465-472  the for loop ends after the last symbol, or at the top
\* of an iteration when the stop flag is set (break)
LoopExit(idx, stop_analysis, total_stocks) ==
    idx >= total_stocks \/ stop_analysis

\* Demo1.py:499-500  the message box is shown when stop_analysis is false
\* where line 499 reads it
CompleteMessage(stop_analysis, message) ==
    IF ~stop_analysis THEN "Analysis Complete" ELSE message

\* Demo1.py:465-476, 486-500  the top of the loop: after the last symbol or
\* when a stop was requested the loop ends, the results are sorted, the
\* tree is refreshed, the label reports the number of results, the flags
\* and buttons are reset and the message is shown (line 495 clears
\* stop_analysis before line 499 reads it); else the analysis of the next
\* symbol starts.  run.stopped records whether the loop ended on the stop
\* flag, run.count the number in the label.
RunAnalysisCheck ==
    /\ tab = "Demo1" /\ pc = "check"
    /\ IF LoopExit(run.idx, run.stop_analysis, Len(symbols))
       THEN LET sorted_results == SortResults(run.results)
                stop_analysis == FALSE
            IN  /\ run' = [run EXCEPT !.results = sorted_results,
                                      !.count = Len(sorted_results),
                                      !.stopped = run.stop_analysis,
                                      !.is_analyzing = FALSE,
                                      !.stop_analysis = stop_analysis,
                                      !.run_button = "normal",
                                      !.stop_button = "disabled",
                                      !.message =
                                         CompleteMessage(stop_analysis, @)]
                /\ rows' = sorted_results
                /\ pc' = "none"
       ELSE /\ run' = [run EXCEPT !.started = Append(@, symbols[run.idx + 1])]
            /\ rows' = rows
            /\ pc' = "analyze"
    /\ UNCHANGED <<tab, day, threshold, ds, sw, rc, events, dh,
                   today, current_time, symbols,
                   csv_file, loaded, calls, stored_data, view_mode>>

\* Demo1.py:478-484  analyze_stock on the symbol: a failed fetch gives no
\* result; any other gives a result, appended to the results and the tree.
\* run.returned records the results analyze_stock returned in this run.
RunAnalysisSymbol ==
    /\ tab = "Demo1" /\ pc = "analyze"
    /\ \E outcome \in Outcomes :
          LET symbol == symbols[run.idx + 1]
              result == analyze_stock(symbol, outcome.data, threshold)
          IN  /\ calls' = Append(calls, [sym |-> symbol, outcome |-> outcome,
                                         start |-> 0, end |-> 0])
              /\ run' = [run EXCEPT
                            !.results = IF outcome.raised THEN @
                                        ELSE Append(@, result),
                            !.returned = IF outcome.raised THEN @
                                         ELSE Append(@, result),
                            !.idx = @ + 1]
              /\ rows' = IF outcome.raised THEN rows ELSE Append(rows, result)
    /\ pc' = "check"
    /\ UNCHANGED <<tab, day, threshold, ds, sw, rc, events, dh,
                   today, current_time, symbols,
                   csv_file, loaded, stored_data, view_mode>>

\* Demo1.py:555-561  clear_results (the Clear Results button, which is
\* never disabled): the tree is emptied and self.results is bound to a new
\* empty list, also while the worker is running.
ClearResults ==
    /\ tab = "Demo1"
    /\ run' = [run EXCEPT !.results = <<>>]
    /\ rows' = <<>>
    /\ UNCHANGED <<tab, pc, day, threshold, ds, sw, rc, events, dh,
                   today, current_time, symbols,
                   csv_file, loaded, calls, stored_data, view_mode>>

\* ------------------------------------- update2.py EarlySessionTab
\* A session of the anchor analysis is the sequence of its bars in time
\* order, a bar being [time, High, Low, Close] with the time of day in
\* minutes after midnight.

\* DataFrame.between_time(a, b): the bars from a to b, both ends included
between_time(day_df, a, b) ==
    SelectSeq(day_df, LAMBDA bar : a <= bar.time /\ bar.time <= b)

\* update2.py:1433  day_df[day_df.index >= anchor_ts]
PostBars(day_df, anchor_ts) ==
    SelectSeq(day_df, LAMBDA bar : bar.time >= anchor_ts)

\* The time of the first bar of df whose column col has the value v
FirstTimeOf(df, col, v) ==
    df[CHOOSE i \in DOMAIN df :
          /\ df[i][col] = v
          /\ \A j \in DOMAIN df : df[j][col] = v => i <= j].time

\* Mutant: a post-session high equal to the price at the start time is HIGH.
DirectionOfOrEqual(post_high, price_at_start) ==
    IF post_high >= price_at_start THEN "HIGH" ELSE "LOW"

\* update2.py:1449-1454  the selection: HIGH when the post-session high is
\* above the price at the start time, else LOW
DirectionOf(post_high, price_at_start) ==
    IF post_high > price_at_start THEN "HIGH" ELSE "LOW"

\* Mutant: the gain taken from the selected price down to the anchor price.
PctGainReversed(selected_price, price_at_start) ==
    IF price_at_start > 0
    THEN Pct(price_at_start - selected_price, price_at_start)
    ELSE Zero

\* update2.py:1456-1458
PctGain(selected_price, price_at_start) ==
    IF price_at_start > 0
    THEN Pct(selected_price - price_at_start, price_at_start)
    ELSE Zero

\* Mutant: no bar at the start time, and the first later bar is the anchor.
AnchorBarNearest(day_df, start_time) ==
    LET later == PostBars(day_df, start_time)
    IN  IF later = <<>> THEN <<>> ELSE <<Head(later)>>

\* update2.py:1424  day_df.between_time(start_time, start_time)
AnchorBar(day_df, start_time) == between_time(day_df, start_time, start_time)

\* update2.py:1416-1472  the record of one date group, if it has a bar at
\* the start time within regular hours: <<record>>, else <<>>
AnchorRecord(d, bars, start_time) ==
    LET day_df == between_time(bars, MarketOpenTime, MarketCloseTime)
        anchor_bar == AnchorBar(day_df, start_time)
    IN  IF day_df = <<>> \/ anchor_bar = <<>> THEN <<>>
        ELSE LET anchor_ts == anchor_bar[1].time
                 price_at_start == anchor_bar[1].Close
                 post_df == PostBars(day_df, anchor_ts)
                 post_high == ColumnMax(post_df, "High")
                 post_low == ColumnMin(post_df, "Low")
                 direction == DirectionOf(post_high, price_at_start)
                 selected_price == IF direction = "HIGH" THEN post_high
                                   ELSE post_low
             IN  <<[date |-> d,
                    price_at_start |-> price_at_start,
                    post_high |-> post_high,
                    post_low |-> post_low,
                    selected_price |-> selected_price,
                    direction |-> direction,
                    high_time |-> FirstTimeOf(post_df, "High", post_high),
                    low_time |-> FirstTimeOf(post_df, "Low", post_low),
                    pct_gain |-> PctGain(selected_price, price_at_start)]>>

\* update2.py:1414-1472  daily_records of a frame, in the order of the dates
RECURSIVE DailyRecords(_, _, _)
DailyRecords(frame, d, start_time) ==
    IF d > Len(frame) THEN <<>>
    ELSE AnchorRecord(d, frame[d], start_time)
         \o DailyRecords(frame, d + 1, start_time)

\* update2.py:1489-1519  _compute_summary of a non-empty list of records.
\* An average is kept as the fraction sum / n; the percentage is taken
\* from the averaged prices, where n cancels.
compute_summary(daily_records) ==
    LET n == Len(daily_records)
        sum_start == Sum(Column(daily_records, "price_at_start"))
        sum_high == Sum(Column(daily_records, "post_high"))
        sum_low == Sum(Column(daily_records, "post_low"))
        summary_direction == IF sum_high > sum_start THEN "HIGH" ELSE "LOW"
        sum_price == IF sum_high > sum_start THEN sum_high ELSE sum_low
    IN  [avg_start |-> [num |-> sum_start, den |-> n],
         avg_high |-> [num |-> sum_high, den |-> n],
         avg_low |-> [num |-> sum_low, den |-> n],
         summary_price |-> [num |-> sum_price, den |-> n],
         summary_direction |-> summary_direction,
         pct_gain |-> IF sum_start > 0
                      THEN Pct(sum_price - sum_start, sum_start)
                      ELSE Zero,
         days |-> n]

\* update2.py:1521-1576  _add_symbol_rows: the collapsed parent row with the
\* summary, and a child row per record
SymbolRows(sym, daily_records) ==
    <<[sym |-> sym, open |-> FALSE,
       summary |-> compute_summary(daily_records),
       children |-> daily_records]>>

\* update2.py:1322-1341  _parse_start_time: the field in minutes, 0 for a
\* text that does not parse, which gives the default 09:40
DefaultStartTime == 580
parse_start_time(start_time_var) ==
    IF start_time_var = 0 THEN DefaultStartTime ELSE start_time_var

\* The bars of the sessions below: a flat bar, an up bar and a down bar at
\* 100, and a wide bar that reaches further both ways.
BarAt(time, kind) ==
    CASE kind = "flat" -> [time |-> time, High |-> 100, Low |-> 100, Close |-> 100]
      [] kind = "up"   -> [time |-> time, High |-> 106, Low |-> 100, Close |-> 103]
      [] kind = "down" -> [time |-> time, High |-> 100, Low |-> 94, Close |-> 97]
      [] kind = "wide" -> [time |-> time, High |-> 112, Low |-> 88, Close |-> 100]

\* The sessions of a frame: bars at 09:30, 09:40 and 10:00, and at 16:05,
\* which is after the close.
AnchorSessions ==
    {<<BarAt(580, "flat"), BarAt(600, "up")>>,
     <<BarAt(580, "flat"), BarAt(600, "down")>>,
     <<BarAt(600, "up")>>,
     <<BarAt(570, "wide"), BarAt(580, "flat"), BarAt(965, "wide")>>,
     <<BarAt(965, "wide")>>}

\* The frames of the anchor analysis: no session, one or two.
AnchorFrames == SeqsUpTo(AnchorSessions, 2)
AnchorOutcomes ==
    {Outcome(TRUE, <<>>)} \cup {Outcome(FALSE, f) : f \in AnchorFrames}

\* The columns the average view hides.
DetailedOnly == {"Highest value", "Lowest value", "Direction"}

\* update2.py:1359-1401  run and _run_analysis up to the loop: the tree is
\* rebuilt if the start time field changed, then emptied; without symbols
\* the run returns; else stored_data is reset and the start time parsed.
EarlyRunStart ==
    /\ tab = "EarlySessionTab.run" /\ pc = "start"
    /\ rows' = <<>>
    /\ LET rebuilt == IF run.start_time_var # run.column_time
                      THEN [run EXCEPT !.column_time = run.start_time_var,
                                       !.hidden = {}, !.remarks = 150]
                      ELSE run
           range == get_date_range(run.start, run.end, today)
       IN  IF symbols = <<>>
           THEN /\ run' = rebuilt
                /\ stored_data' = stored_data
                /\ pc' = "returned"
           ELSE /\ run' = [rebuilt EXCEPT
                              !.idx = 0,
                              !.start_date = range.start_date,
                              !.end_date = range.end_date,
                              !.start_time = parse_start_time(run.start_time_var),
                              !.start_time_var = parse_start_time(run.start_time_var)]
                /\ stored_data' = <<>>
                /\ pc' = "loop"
    /\ UNCHANGED <<tab, day, threshold, ds, sw, rc, events, dh,
                   today, current_time, symbols,
                   csv_file, loaded, calls, view_mode>>

\* update2.py:1403-1487  one symbol of _run_analysis
EarlyRunSymbol ==
    /\ tab = "EarlySessionTab.run" /\ pc = "loop"
    /\ \E outcome \in AnchorOutcomes :
          LET sym == symbols[run.idx + 1]
              next == NextSymbol(run.idx, outcome, Len(symbols))
              daily_records == DailyRecords(outcome.data, 1, run.start_time)
              kept == ~outcome.raised /\ daily_records # <<>>
          IN  /\ calls' = Append(calls, [sym |-> sym, outcome |-> outcome,
                                         start |-> run.start_date,
                                         end |-> run.end_date + 1])
              /\ stored_data' = IF kept THEN (sym :> daily_records) @@ stored_data
                                ELSE stored_data
              /\ rows' = IF kept THEN rows \o SymbolRows(sym, daily_records)
                         ELSE rows
              /\ run' = [run EXCEPT !.idx = next]
              /\ pc' = IF next >= Len(symbols) THEN "done" ELSE "loop"
    /\ UNCHANGED <<tab, day, threshold, ds, sw, rc, events, dh,
                   today, current_time, symbols,
                   csv_file, loaded, view_mode>>

\* Mutant: the average view drops the child rows.
ToggledTreeDropChildren(tree, mode) ==
    IF mode = "average"
    THEN [i \in DOMAIN tree |-> [tree[i] EXCEPT !.open = FALSE,
                                               !.children = <<>>]]
    ELSE tree

\* update2.py:1599-1601  the average view collapses every parent
ToggledTree(tree, mode) ==
    IF mode = "average"
    THEN [i \in DOMAIN tree |-> [tree[i] EXCEPT !.open = FALSE]]
    ELSE tree

\* update2.py:811-819, 1578-1618  a click on a view-mode radio button sets
\* view_mode and calls toggle_view_mode, which sets the column widths and,
\* for the average view, collapses the parents.  No event is handled while
\* a run is in its loop (update_progress calls update_idletasks only).
ToggleViewMode ==
    /\ tab = "EarlySessionTab.run" /\ pc \in {"start", "done", "returned"}
    /\ \E mode \in {"detailed", "average"} :
          /\ view_mode' = mode
          /\ run' = [run EXCEPT
                        !.hidden = IF mode = "average" THEN DetailedOnly ELSE {},
                        !.remarks = IF mode = "average" THEN 260 ELSE 40]
          /\ rows' = ToggledTree(rows, mode)
    /\ UNCHANGED <<tab, pc, day, threshold, ds, sw, rc, events, dh,
                   today, current_time, symbols,
                   csv_file, loaded, calls, stored_data>>

\* update2.py:855-876  on_tree_click on the symbol column of a parent row
\* with children: the row is expanded or collapsed
OnTreeClick ==
    /\ tab = "EarlySessionTab.run" /\ pc \in {"done", "returned"}
    /\ \E i \in DOMAIN rows :
          /\ rows[i].children # <<>>
          /\ rows' = [rows EXCEPT ![i].open = ~@]
    /\ UNCHANGED <<tab, pc, day, threshold, ds, sw, rc, events, dh,
                   today, current_time, symbols, run,
                   csv_file, loaded, calls, stored_data, view_mode>>

\* ------------------------------------------------------- the runs' spec
\* The thresholds a user can type: a valid one, 0 and one above 100.
RunThresholds == {0, 3, 101}

\* The start and end date fields as day numbers (day 7 is a Monday, 0 a
\* field that does not parse): start before end, equal to it, after it,
\* unreadable, and a range of ten days.
DateFields == {<<1, 2>>, <<2, 2>>, <<3, 2>>, <<0, 2>>, <<1, 10>>}

\* The date fields of a run of the anchor tab: two days, or ten.
AnchorDateFields == {<<1, 2>>, <<1, 10>>}

\* The start time field: 09:40, 10:00, 16:05 and a text that does not parse.
StartTimeFields == {0, 580, 600, 965}

\* The application of Demo1 after construction.
Demo1Idle ==
    [bars |-> 0, is_analyzing |-> FALSE, stop_analysis |-> FALSE,
     run_button |-> "normal", stop_button |-> "disabled",
     results |-> <<>>, idx |-> 0, started |-> <<>>, message |-> "none",
     returned |-> <<>>, stopped |-> FALSE, count |-> 0]

\* A behaviour is one run of the swing tab, of the reversal-cycle tab or of
\* the anchor tab (with the view-mode switches and the clicks on its tree
\* before and after the run), or a sequence of runs of Demo1.
InitRun ==
    /\ day = NoSession
    /\ ds = Idle /\ sw = Idle /\ rc = Idle /\ dh = Idle /\ events = <<>>
    /\ today = 7 /\ current_time = 0
    /\ csv_file = <<>> /\ loaded = <<>>
    /\ stored_data = <<>> /\ view_mode = "detailed"
    /\ rows = <<>> /\ calls = <<>>
    /\ threshold \in RunThresholds
    /\ \/ /\ tab \in {"SwingCounterTab.run", "ReversalCycleTab.run"}
          /\ pc = "start"
          /\ symbols \in SymbolLists
          /\ \E f \in DateFields :
                run = [bars |-> 0, start |-> f[1], end |-> f[2]]
       \/ /\ tab = "EarlySessionTab.run"
          /\ pc = "start"
          /\ symbols \in SymbolLists
          /\ \E t \in StartTimeFields, f \in AnchorDateFields :
                run = [bars |-> 0, start |-> f[1], end |-> f[2],
                       start_time_var |-> t, column_time |-> DefaultStartTime,
                       hidden |-> {}, remarks |-> 150,
                       idx |-> 0, start_date |-> 0, end_date |-> 0,
                       start_time |-> 0]
       \/ /\ tab = "Demo1"
          /\ pc = "none"
          /\ symbols \in SymbolLists \ {<<>>}
          /\ run = Demo1Idle

NextRun ==
    \/ SwingRunStart
    \/ SwingRunSymbol
    \/ CycleRunStart
    \/ CycleRunSymbol
    \/ EarlyRunStart
    \/ EarlyRunSymbol
    \/ ToggleViewMode
    \/ OnTreeClick
    \/ StartAnalysis
    \/ StopAnalysisProcess
    \/ RunAnalysisEnter
    \/ RunAnalysisCheck
    \/ RunAnalysisSymbol
    \/ ClearResults

SpecRun == InitRun /\ [][NextRun]_vars

\* ------------------------------------------------------ claims on a run
\* A run of one of the two tabs that has reached its loop.
TabRunning == tab \in {"SwingCounterTab.run", "ReversalCycleTab.run"}
                 /\ pc \in {"loop", "done"}

\* The dates of the sessions of a frame that have at least 2 bars.
RetainedDates(frame) == {d \in DOMAIN frame : Len(frame[d].Close) >= 2}

\* The dates of the child rows are the dates of S, in increasing order.
ChildrenAre(children, S) ==
    /\ Len(children) = Cardinality(S)
    /\ \A i \in DOMAIN children : children[i].date \in S
    /\ \A i, j \in DOMAIN children : i < j => children[i].date < children[j].date

\* avg, a number of hundredths, is total / n to the nearest hundredth.
IsAverage(avg, total, n) ==
    /\ 2 * (100 * total - avg * n) <= n
    /\ 2 * (avg * n - 100 * total) <= n

\* The rows of the symbols processed so far, one per symbol with a retained
\* session: the k-th processed symbol's row, or none.
RowsOf(k) == {i \in DOMAIN rows : rows[i].sym = calls[k].sym}

\* C15: in the swing and reversal-cycle tabs every summary row is consistent
\* with its detail rows: the detail rows are exactly the sessions of at
\* least 2 bars, each total is the sum of the per-session values, total
\* swings = up + down, the average is the total over the number of detail
\* rows, and a symbol without such a session has no summary row.
C15_SummaryMatchesDetail ==
    TabRunning =>
        /\ \A k \in DOMAIN calls :
              LET retained == IF calls[k].outcome.raised THEN {}
                              ELSE RetainedDates(calls[k].outcome.data)
              IN  /\ retained = {} => RowsOf(k) = {}
                  /\ retained # {} =>
                        /\ Cardinality(RowsOf(k)) = 1
                        /\ \A i \in RowsOf(k) :
                              ChildrenAre(rows[i].children, retained)
        /\ \A i \in DOMAIN rows :
              LET row == rows[i]
                  n == Len(row.children)
              IN  /\ n >= 1
                  /\ \E k \in DOMAIN calls : calls[k].sym = row.sym
                  /\ IsAverage(row.avg, row.total, n)
                  /\ IF tab = "SwingCounterTab.run"
                     THEN /\ row.up = Sum(Column(row.children, "up"))
                          /\ row.down = Sum(Column(row.children, "down"))
                          /\ row.total = Sum(Column(row.children, "total"))
                          /\ row.total = row.up + row.down
                     ELSE /\ row.total = Sum(Column(row.children, "cycles"))
                          /\ row.days = n

\* A finished swing run with a two-session summary whose average is not a
\* whole number, after a symbol whose only session had one bar.
C15_Witness ==
    /\ tab = "SwingCounterTab.run" /\ pc = "done"
    /\ Len(calls) = 2 /\ Len(rows) = 1
    /\ ~calls[1].outcome.raised /\ Len(calls[1].outcome.data) = 1
    /\ Len(rows[1].children) = 2
    /\ rows[1].up = 1 /\ rows[1].down = 2
    /\ rows[1].avg = 150

\* A threshold outside (0, 100].
InvalidThreshold == threshold <= 0 \/ threshold > 100

\* The part of C19 about Demo1: with an invalid swing percentage
\* run_analysis returns before its loop, no symbol is fetched and no row
\* is produced.
C19_Demo1Rejects ==
    tab = "Demo1" /\ InvalidThreshold =>
        /\ pc \in {"none", "entry"}
        /\ calls = <<>> /\ rows = <<>> /\ run.results = <<>>
        /\ run.started = <<>>

\* C19: a run with an invalid configuration (threshold <= 0 or > 100, or
\* start date >= end date) fetches no symbol and produces no row, in Demo1
\* and in the runs of the tabs.
C19_InvalidConfigRejected ==
    /\ C19_Demo1Rejects
    /\ TabRunning /\ (InvalidThreshold \/ run.start_date >= run.end_date) =>
          calls = <<>> /\ rows = <<>>

\* ------------------------------------------ claims on the anchor analysis
AnchorRunning == tab = "EarlySessionTab.run" /\ pc \in {"loop", "done"}

\* A bar within regular hours, 09:30 to 16:00.
InHours(bar) == 570 <= bar.time /\ bar.time <= 960

\* The bars of a session at or after the time t, within regular hours.
BarsFrom(bars, t) == {bars[i] : i \in {j \in DOMAIN bars :
                                          InHours(bars[j]) /\ bars[j].time >= t}}

\* The bars of a session at exactly the time t, within regular hours.
BarsAt(bars, t) == {bars[i] : i \in {j \in DOMAIN bars :
                                        InHours(bars[j]) /\ bars[j].time = t}}

\* The records stored for the k-th call, none if the symbol has none.
RecordsOf(k) ==
    IF calls[k].sym \in DOMAIN stored_data
    THEN stored_data[calls[k].sym] ELSE <<>>

\* C12: every record has direction HIGH and selected_price = post_high
\* exactly when post_high > anchor price, and otherwise LOW and post_low;
\* pct_gain = (selected_price - anchor_price) / anchor_price * 100; post_high
\* and post_low are the extremes of the session's bars at or after the
\* anchor time, and the anchor price is the close of the bar at that time.
C12_AnchorDirectionRule ==
    AnchorRunning =>
        \A k \in DOMAIN calls :
            \A n \in DOMAIN RecordsOf(k) :
                LET r == RecordsOf(k)[n]
                    post == BarsFrom(calls[k].outcome.data[r.date], run.start_time)
                    anchor == BarsAt(calls[k].outcome.data[r.date], run.start_time)
                IN  /\ \E bar \in anchor : r.price_at_start = bar.Close
                    /\ \E bar \in post : r.post_high = bar.High
                    /\ \A bar \in post : r.post_high >= bar.High
                    /\ \E bar \in post : r.post_low = bar.Low
                    /\ \A bar \in post : r.post_low <= bar.Low
                    /\ IF r.post_high > r.price_at_start
                       THEN r.direction = "HIGH" /\ r.selected_price = r.post_high
                       ELSE r.direction = "LOW" /\ r.selected_price = r.post_low
                    /\ r.pct_gain.den > 0
                    /\ r.pct_gain.num * r.price_at_start
                          = (r.selected_price - r.price_at_start) * 100 * r.pct_gain.den

\* A finished run that recorded a HIGH session and a flat LOW session, the
\* flat one with wider bars before the anchor time and after the close.
C12_Witness ==
    /\ tab = "EarlySessionTab.run" /\ pc = "done"
    /\ \E k \in DOMAIN calls :
          /\ Len(RecordsOf(k)) = 2
          /\ RecordsOf(k)[1].direction = "HIGH"
          /\ RecordsOf(k)[1].pct_gain = Pct(6, 100)
          /\ RecordsOf(k)[2].direction = "LOW"
          /\ RecordsOf(k)[2].post_high = RecordsOf(k)[2].price_at_start
          /\ RecordsOf(k)[2].post_low = RecordsOf(k)[2].price_at_start
          /\ Len(calls[k].outcome.data[2]) = 3

\* C13: a session without a bar at exactly the anchor time produces no
\* record: the records of a symbol are, in date order, those of its
\* sessions with a bar at the anchor time within regular hours.
C13_NoAnchorNoRecord ==
    AnchorRunning =>
        \A k \in DOMAIN calls :
            LET frame == calls[k].outcome.data
                anchored == {d \in DOMAIN frame :
                                BarsAt(frame[d], run.start_time) # {}}
            IN  /\ ChildrenAre(RecordsOf(k), anchored)
                /\ calls[k].sym \in DOMAIN stored_data <=> anchored # {}

\* A finished run with a frame of two sessions, one with a bar at the
\* anchor time and one with a later bar only, that stored one record.
C13_Witness ==
    /\ tab = "EarlySessionTab.run" /\ pc = "done"
    /\ \E k \in DOMAIN calls :
          LET frame == calls[k].outcome.data
          IN  /\ Len(frame) = 2
              /\ BarsAt(frame[1], run.start_time) = {}
              /\ BarsFrom(frame[1], run.start_time) # {}
              /\ BarsAt(frame[2], run.start_time) # {}
              /\ Len(RecordsOf(k)) = 1
              /\ RecordsOf(k)[1].date = 2

\* Fractions in lowest terms, to compare a mean with a percentage.
RECURSIVE GCD(_, _)
GCD(a, b) == IF b = 0 THEN a ELSE GCD(b, a % b)

Abs(a) == IF a < 0 THEN -a ELSE a

Reduce(f) ==
    LET g == GCD(Abs(f.num), f.den)
    IN  [num |-> f.num \div g, den |-> f.den \div g]

FracAdd(f, g) ==
    Reduce([num |-> f.num * g.den + g.num * f.den, den |-> f.den * g.den])

RECURSIVE FracSum(_)
FracSum(fs) == IF fs = <<>> THEN Zero ELSE FracAdd(Head(fs), FracSum(Tail(fs)))

\* The arithmetic mean of the fractions of a non-empty sequence.
Mean(fs) ==
    LET total == FracSum(fs)
    IN  Reduce([num |-> total.num, den |-> total.den * Len(fs)])

\* The part of C14 that holds: the summary of a single session has the
\* pct_gain of that session.
C14_SingleSessionSummary ==
    AnchorRunning =>
        \A i \in DOMAIN rows :
            Len(rows[i].children) = 1 =>
                Reduce(rows[i].summary.pct_gain)
                    = Reduce(rows[i].children[1].pct_gain)

\* C14: the pct_gain of a symbol's summary row is the arithmetic mean of
\* the pct_gain of its retained sessions.
C14_SummaryIsMeanGain ==
    AnchorRunning =>
        \A i \in DOMAIN rows :
            Reduce(rows[i].summary.pct_gain)
                = Mean(Column(rows[i].children, "pct_gain"))

\* The detail rows of a tree: the child rows under each parent.
Details(tree) == [i \in DOMAIN tree |-> [sym |-> tree[i].sym,
                                         children |-> tree[i].children]]

\* C16: a switch of the view mode leaves stored_data as it was, makes no
\* provider call and starts no run, and the detail rows of the tree are
\* the same after it as before.
C16_ToggleKeepsRecords ==
    [][tab = "EarlySessionTab.run" /\ view_mode' # view_mode =>
          /\ stored_data' = stored_data
          /\ calls' = calls
          /\ pc' = pc
          /\ Details(rows') = Details(rows)]_vars

\* The average view, switched to after a run that stored records for two
\* symbols: the records and the child rows are still there.
C16_Witness ==
    /\ tab = "EarlySessionTab.run" /\ pc = "done"
    /\ view_mode = "average" /\ run.hidden = DetailedOnly
    /\ DOMAIN stored_data = {"AAPL", "MSFT"}
    /\ Len(rows) = 2
    /\ \A i \in DOMAIN rows : rows[i].children = stored_data[rows[i].sym]
    /\ Len(rows[1].children) = 2

\* A run of a tab of update2 that has reached its loop.
AnyTabRunning ==
    /\ tab \in {"SwingCounterTab.run", "ReversalCycleTab.run",
                "EarlySessionTab.run"}
    /\ pc \in {"loop", "done"}

\* A call that failed: the provider raised or returned no data.
Failed(call) == call.outcome.raised \/ call.outcome.data = <<>>

\* The rows a symbol gets in a run in which it is the only symbol, from
\* what the provider answered for it.
RowsAlone(call) ==
    IF call.outcome.raised THEN <<>>
    ELSE IF tab = "SwingCounterTab.run"
    THEN SwingRows(call.sym, call.outcome.data, threshold)
    ELSE IF tab = "ReversalCycleTab.run"
    THEN CycleRows(call.sym, call.outcome.data, threshold)
    ELSE LET daily_records == DailyRecords(call.outcome.data, 1, run.start_time)
         IN  IF daily_records = <<>> THEN <<>>
             ELSE SymbolRows(call.sym, daily_records)

\* The rows of a run over the symbols of cs that did not fail.
RECURSIVE RowsWithoutFailed(_)
RowsWithoutFailed(cs) ==
    IF cs = <<>> THEN <<>>
    ELSE (IF Failed(Head(cs)) THEN <<>> ELSE RowsAlone(Head(cs)))
         \o RowsWithoutFailed(Tail(cs))

\* The tree without the expanded / collapsed state of its rows.
Collapsed(tree) ==
    [i \in DOMAIN tree |->
        IF "open" \in DOMAIN tree[i] THEN [tree[i] EXCEPT !.open = FALSE]
        ELSE tree[i]]

\* C20: a symbol whose fetch raises or returns no data gets no row; every
\* symbol of the list is processed, in order, whatever the others did; and
\* the rows are those of a run over the symbols that did not fail.
C20_FailuresIsolated ==
    AnyTabRunning =>
        /\ Len(calls) = run.idx
        /\ pc = "done" => Len(calls) = Len(symbols)
        /\ \A k \in DOMAIN calls :
              /\ calls[k].sym = symbols[k]
              /\ Failed(calls[k]) => RowsOf(k) = {}
        /\ Collapsed(rows) = RowsWithoutFailed(calls)

\* A finished swing run whose first symbol raised and whose second symbol
\* has its row.
C20_Witness ==
    /\ tab = "SwingCounterTab.run" /\ pc = "done"
    /\ Len(calls) = 2
    /\ calls[1].outcome.raised
    /\ Len(rows) = 1 /\ rows[1].sym = "MSFT" /\ rows[1].total > 0

\* ------------------------------------------------- claims on Demo1's runs

\* C21: in Demo1 the stop flag is read only at the top of the loop: a step
\* that starts the analysis of a symbol is taken with the flag not set, and
\* a symbol whose analysis was started completes whatever the user does
\* meanwhile: analyze_stock is called on it and, unless the fetch failed,
\* its result is the last of the results and of the tree.
C21_StopAtSymbolBoundary ==
    [][tab = "Demo1" =>
          /\ Len(run'.started) = Len(run.started) + 1 =>
                /\ ~run.stop_analysis
                /\ pc' = "analyze"
          /\ pc = "analyze" => pc' \in {"analyze", "check"}
          /\ (pc = "analyze" /\ pc' = "check") =>
                LET symbol == run.started[Len(run.started)]
                    call   == calls'[Len(calls')]
                IN  /\ Len(calls') = Len(calls) + 1
                    /\ call.sym = symbol
                    /\ ~call.outcome.raised =>
                          /\ run'.results # <<>>
                          /\ run'.results[Len(run'.results)].symbol = symbol
                          /\ rows' # <<>>
                          /\ rows'[Len(rows')].symbol = symbol
    ]_vars

\* A run over two symbols that ended on the stop flag after the first
\* symbol: the first symbol was analysed and has its result, the second
\* was never started.
C21_Witness ==
    /\ tab = "Demo1" /\ pc = "none"
    /\ run.stopped
    /\ Len(symbols) = 2
    /\ run.started = <<symbols[1]>>
    /\ Len(calls) = 1
    /\ Len(run.results) = 1 /\ run.results[1].symbol = symbols[1]

\* C22: when a run of Demo1 ends, the number reported ("analyzed N stocks")
\* is the number of results analyze_stock returned in that run, and the
\* results list holds exactly those results (sorted), whatever the user
\* did during the run.
C22_NothingDropped ==
    [][(tab = "Demo1" /\ pc = "check" /\ pc' = "none") =>
          /\ run'.count = Len(run.returned)
          /\ run'.results = SortResults(run.returned)
    ]_vars

\* C26: the "Analysis Complete" message is shown only by a run that did not
\* end on the stop flag.
C26_CompleteOnlyIfNotStopped ==
    (tab = "Demo1" /\ run.message = "Analysis Complete") => ~run.stopped

\* C29: in Demo1, whenever is_analyzing is false the Run button is enabled
\* and the Stop button is disabled.
C29_ButtonsFollowFlag ==
    (tab = "Demo1" /\ ~run.is_analyzing) =>
        /\ run.run_button = "normal"
        /\ run.stop_button = "disabled"

\* ------------------------------------------- claims on detect_swings' ties

\* C27: in detect_swings, for a threshold > 0, there is no bar at which
\* pct_from_low >= threshold with the last direction not "up" and
\* pct_from_high >= threshold with the last direction not "down" hold
\* together, so the order of the two tests decides nothing.
C27_NoTieBetweenSwings ==
    [][(tab = "detect_swings" /\ pc = "loop" /\ ds'.bars = ds.bars + 1
        /\ threshold > 0) =>
          ~ /\ GE(ds'.pct_from_low, threshold)
            /\ ds.last_swing_direction # "up"
            /\ GE(ds'.pct_from_high, threshold)
            /\ ds.last_swing_direction # "down"
    ]_vars

\* A call whose last bar is a threshold above the running low and a
\* threshold below the running high: after a down-swing only the up-swing
\* condition holds, and the up-swing is counted.
C27_Witness ==
    /\ tab = "detect_swings" /\ pc = "done"
    /\ day.Close = BetweenLowAndHighCloses
    /\ GE(ds.pct_from_low, threshold)
    /\ GE(ds.pct_from_high, threshold)
    /\ ds.last_swing_direction = "up"
    /\ ds.up_swings = 1 /\ ds.down_swings = 1

\* ------------------------------------------ claims on the anchor's records

\* Every bar of the frame has low <= close <= high and a positive close.
WellFormedBars(frame) ==
    \A d \in DOMAIN frame : \A i \in DOMAIN frame[d] :
        LET bar == frame[d][i]
        IN  bar.Low <= bar.Close /\ bar.Close <= bar.High /\ bar.Close > 0

\* C28: for bars with low <= close <= high and a positive anchor price, the
\* post_high of a record is never below its anchor price, a LOW record has
\* post_high equal to the anchor price, a HIGH record has pct_gain > 0 and
\* a LOW record has pct_gain <= 0.
C28_DirectionAndSign ==
    AnchorRunning =>
        \A k \in DOMAIN calls :
            (~calls[k].outcome.raised /\ WellFormedBars(calls[k].outcome.data)) =>
                \A n \in DOMAIN RecordsOf(k) :
                    LET r == RecordsOf(k)[n]
                    IN  /\ r.post_high >= r.price_at_start
                        /\ r.direction \in {"HIGH", "LOW"}
                        /\ r.direction = "LOW" =>
                              /\ r.post_high = r.price_at_start
                              /\ r.pct_gain.den > 0 /\ r.pct_gain.num <= 0
                        /\ r.direction = "HIGH" =>
                              r.pct_gain.den > 0 /\ r.pct_gain.num > 0

\* A finished run that recorded, for one symbol, a HIGH session with a
\* gain of 6 % and a LOW session with a loss of 6 %.
C28_Witness ==
    /\ tab = "EarlySessionTab.run" /\ pc = "done"
    /\ \E k \in DOMAIN calls :
          /\ ~calls[k].outcome.raised
          /\ WellFormedBars(calls[k].outcome.data)
          /\ Len(RecordsOf(k)) = 2
          /\ RecordsOf(k)[1].direction = "HIGH"
          /\ RecordsOf(k)[1].pct_gain = Pct(6, 100)
          /\ RecordsOf(k)[2].direction = "LOW"
          /\ RecordsOf(k)[2].post_high = RecordsOf(k)[2].price_at_start
          /\ RecordsOf(k)[2].pct_gain = Pct(0 - 6, 100)

\* ------------------------------------------- update2.py the date controls
\* The largest number of trading days asked of get_trading_days_back.
MaxBack == 6

\* Two weeks of dates, Monday 21 to Sunday 34.
DateDays == 21..34

\* The text of a date field: a date, or 0 for a text that parse_date
\* (update2.py:50-55) turns into None.  format_date (58-62) of a date is
\* the text that parses back to it.
DateTexts == DateDays \cup {0}

\* update2.py:249-267  validate_date_range on the texts of the two fields:
\* the fields after the call, the message box shown and the text it names
validate_date_range(start_str, end_str) ==
    LET start_date == start_str
        end_date == end_str
        unchanged == [start_date_var |-> start_str, end_date_var |-> end_str,
                      message |-> "none", named |-> 0]
    IN  IF start_date # 0 /\ end_date # 0
        THEN IF start_date > end_date
             THEN [unchanged EXCEPT
                      !.start_date_var = get_previous_trading_day(end_date),
                      !.message = "Invalid Date Range"]
             ELSE IF ~is_trading_day(start_date)
             THEN [unchanged EXCEPT
                      !.start_date_var = get_previous_trading_day(start_date),
                      !.message = "Non-Trading Day", !.named = start_str]
             ELSE IF ~is_trading_day(end_date)
             THEN [unchanged EXCEPT
                      !.end_date_var = get_previous_trading_day(end_date),
                      !.message = "Non-Trading Day", !.named = end_str]
             ELSE unchanged
        ELSE unchanged

\* update2.py:124-126  the two fields after construction
DatesIdle ==
    [bars |-> 0,
     start_date_var |-> get_previous_trading_day(today),
     end_date_var |-> today,
     message |-> "none", named |-> 0, trading_days |-> 0]

\* The user types a text into each of the two date fields.
TypeDates ==
    /\ tab = "dates"
    /\ \E start_str \in DateTexts, end_str \in DateTexts :
          run' = [run EXCEPT !.start_date_var = start_str,
                             !.end_date_var = end_str,
                             !.message = "none", !.named = 0,
                             !.trading_days = 0]
    /\ pc' = "typed"
    /\ UNCHANGED <<tab, day, threshold, ds, sw, rc, events, clock,
                   csv_file, loaded, calls, stored_data, view_mode>>

\* update2.py:693, 698, 249-267  a date field loses the focus:
\* validate_date_range
ValidateDateRange ==
    /\ tab = "dates"
    /\ LET out == validate_date_range(run.start_date_var, run.end_date_var)
       IN  run' = [run EXCEPT !.start_date_var = out.start_date_var,
                              !.end_date_var = out.end_date_var,
                              !.message = out.message, !.named = out.named,
                              !.trading_days = 0]
    /\ pc' = "validated"
    /\ UNCHANGED <<tab, day, threshold, ds, sw, rc, events, clock,
                   csv_file, loaded, calls, stored_data, view_mode>>

\* update2.py:243-247  set_date_range(trading_days): both fields are set
\* from get_trading_days_back
SetDateRange ==
    /\ tab = "dates"
    /\ \E trading_days \in 1..MaxBack :
          LET range == get_trading_days_back(trading_days, today)
          IN  run' = [run EXCEPT !.start_date_var = range.start_date,
                                 !.end_date_var = range.end_date,
                                 !.message = "none", !.named = 0,
                                 !.trading_days = trading_days]
    /\ pc' = "set"
    /\ UNCHANGED <<tab, day, threshold, ds, sw, rc, events, clock,
                   csv_file, loaded, calls, stored_data, view_mode>>

\* A behaviour is a sequence of edits of the date fields, focus changes
\* and clicks on the preset buttons, on any day of two weeks.
InitDates ==
    /\ tab = "dates" /\ pc = "start"
    /\ day = NoSession /\ threshold = 5
    /\ ds = Idle /\ sw = Idle /\ rc = Idle /\ dh = Idle
    /\ events = <<>> /\ rows = <<>>
    /\ today \in DateDays /\ current_time = 0 /\ symbols = <<>>
    /\ csv_file = <<>> /\ loaded = <<>>
    /\ calls = <<>> /\ stored_data = <<>> /\ view_mode = "detailed"
    /\ run = DatesIdle

NextDates == TypeDates \/ ValidateDateRange \/ SetDateRange

SpecDates == InitDates /\ [][NextDates]_vars

\* ------------------------------------------------- claims on the calendar

\* Monday to Friday, by the day number (day 21 is a Monday).
MondayToFriday(d) == d % 7 \in 0..4

\* The latest Monday-Friday date at or before d (strictly before d).
LatestWeekdayUpTo(d) ==
    CHOOSE e \in (d - 7)..d :
        MondayToFriday(e) /\ \A x \in (e + 1)..d : ~MondayToFriday(x)
LatestWeekdayBefore(d) == LatestWeekdayUpTo(d - 1)

\* C24: get_trading_days_back(N) returns (start, end) with end the latest
\* Monday-Friday date <= today, start <= end and exactly N Monday-Friday
\* dates in [start, end]; get_previous_trading_day(d) is the latest
\* Monday-Friday date strictly before d.
C24_TradingDaysBack ==
    tab = "dates" =>
        /\ pc = "set" =>
              /\ run.end_date_var = LatestWeekdayUpTo(today)
              /\ run.start_date_var <= run.end_date_var
              /\ Cardinality({d \in run.start_date_var..run.end_date_var :
                                 MondayToFriday(d)}) = run.trading_days
        /\ pc = "start" =>
              run.start_date_var = LatestWeekdayBefore(today)
        /\ \A d \in DateDays :
              get_previous_trading_day(d) = LatestWeekdayBefore(d)

\* The preset of six trading days clicked on a Sunday: the range ends on
\* the Friday before and starts on the Friday a week earlier.
C24_Witness ==
    /\ tab = "dates" /\ pc = "set"
    /\ today % 7 = 6
    /\ run.trading_days = MaxBack
    /\ run.end_date_var = today - 2
    /\ run.start_date_var < run.end_date_var - 6

\* The trading day nearest to a Saturday or Sunday: the Friday before a
\* Saturday, the Monday after a Sunday.
NearestTradingDay(d) ==
    CHOOSE e \in (d - 2)..(d + 2) :
        /\ MondayToFriday(e)
        /\ \A x \in (d - 2)..(d + 2) :
              MondayToFriday(x) => Abs(e - d) <= Abs(x - d)

\* C25: a call of validate_date_range that reads a start or an end date on
\* a Saturday or Sunday replaces that date with the nearest trading day and
\* shows the message that reports the adjustment.
C25_ShiftsToNearest ==
    [][(tab = "dates" /\ pc' = "validated"
        /\ run.start_date_var # 0 /\ run.end_date_var # 0) =>
          /\ ~MondayToFriday(run.start_date_var) =>
                /\ run'.start_date_var = NearestTradingDay(run.start_date_var)
                /\ run'.message = "Non-Trading Day"
          /\ ~MondayToFriday(run.end_date_var) =>
                /\ run'.end_date_var = NearestTradingDay(run.end_date_var)
                /\ run'.message = "Non-Trading Day"
    ]_vars

\* ----------------------------------------- claims on the requested range

\* A run of a tab of update2 that has called the provider.
ProviderCalled ==
    /\ tab \in {"SwingCounterTab.run", "ReversalCycleTab.run",
                "EarlySessionTab.run"}
    /\ calls # <<>>

\* C23: at the 1-minute interval the range handed to the provider, from
\* its start to its exclusive end, is never longer than MAX_DAYS_1M days.
C23_RangeTruncated ==
    (ProviderCalled /\ interval_var = "1m") =>
        \A k \in DOMAIN calls : calls[k].end - calls[k].start <= MAX_DAYS_1M

\* ------------------------------------- update2.py the toolbar's symbol list
\* update2.py:427 (also 382 and 479)  [s.strip().upper() for s in texts if
\* s.strip()]: the rows of an uploaded file, the lines of the edit dialog
\* or the words of the manual entry, as the handlers normalise them
StrippedUpper(texts) ==
    LET kept == SelectSeq(texts, NotBlank)
    IN  [i \in 1..Len(kept) |-> upper(strip(kept[i]))]

\* update2.py:357-361, 385  the checkbox dictionary has one key per loaded
\* symbol, in sorted order; a selection is the ticked keys in that order
CheckboxSelections(loaded_symbols) ==
    {sorted(S) : S \in SUBSET set(loaded_symbols)}

\* update2.py:110-117  the application after construction on a machine
\* without a symbol file: the default file is written and loaded
ToolbarIdle ==
    [bars |-> 0, active_symbols |-> load_symbols(save_symbols(DefaultSymbols))]

\* update2.py:418-434  upload_csv: the rows of the chosen file
UploadCsv ==
    /\ tab = "StockAnalysisApp"
    /\ \E file_rows \in SymbolInputs :
          LET syms == StrippedUpper(file_rows)
          IN  /\ csv_file' = save_symbols(syms)
              /\ run' = [run EXCEPT !.active_symbols = syms]
    /\ pc' = "upload_csv"
    /\ UNCHANGED <<tab, day, threshold, ds, sw, rc, events, clock,
                   loaded, calls, stored_data, view_mode>>

\* update2.py:269-273, 97-104  load_default_csv: the file exists
LoadDefaultCsv ==
    /\ tab = "StockAnalysisApp"
    /\ run' = [run EXCEPT !.active_symbols = load_symbols(csv_file)]
    /\ pc' = "load_default_csv"
    /\ UNCHANGED <<tab, day, threshold, ds, sw, rc, events, clock,
                   csv_file, loaded, calls, stored_data, view_mode>>

\* update2.py:275-280, 93-95  clear_symbols, confirmed
ClearSymbols ==
    /\ tab = "StockAnalysisApp"
    /\ csv_file' = save_symbols(<<>>)
    /\ run' = [run EXCEPT !.active_symbols = <<>>]
    /\ pc' = "clear_symbols"
    /\ UNCHANGED <<tab, day, threshold, ds, sw, rc, events, clock,
                   loaded, calls, stored_data, view_mode>>

\* update2.py:436-459  add_symbol: the text of the entry; an empty symbol
\* changes nothing
AddSymbol ==
    /\ tab = "StockAnalysisApp"
    /\ \E text \in Tickers :
          LET symbol == upper(strip(text))
              syms == Append(load_symbols(csv_file), symbol)
          IN  IF symbol # <<>>
              THEN /\ csv_file' = save_symbols(syms)
                   /\ run' = [run EXCEPT !.active_symbols = syms]
              ELSE /\ csv_file' = csv_file
                   /\ run' = run
    /\ pc' = "add_symbol"
    /\ UNCHANGED <<tab, day, threshold, ds, sw, rc, events, clock,
                   loaded, calls, stored_data, view_mode>>

\* update2.py:461-486  edit_symbols: the lines of the text box when Save
\* Changes is clicked
EditSymbols ==
    /\ tab = "StockAnalysisApp"
    /\ \E lines \in SymbolInputs :
          LET new_symbols == StrippedUpper(lines)
          IN  /\ csv_file' = save_symbols(new_symbols)
              /\ run' = [run EXCEPT !.active_symbols = new_symbols]
    /\ pc' = "edit_symbols"
    /\ UNCHANGED <<tab, day, threshold, ds, sw, rc, events, clock,
                   loaded, calls, stored_data, view_mode>>

\* update2.py:282-393  select_stocks and its Apply Selection: the words of
\* the manual entry, or the ticked symbols of the loaded list; an empty
\* selection changes nothing
SelectStocks ==
    /\ tab = "StockAnalysisApp"
    /\ \E syms \in {StrippedUpper(words) : words \in SymbolInputs}
                      \cup CheckboxSelections(load_symbols(csv_file)) :
          IF syms # <<>>
          THEN /\ run' = [run EXCEPT !.active_symbols = syms]
               /\ csv_file' = save_symbols(syms)
          ELSE /\ run' = run
               /\ csv_file' = csv_file
    /\ pc' = "select_stocks"
    /\ UNCHANGED <<tab, day, threshold, ds, sw, rc, events, clock,
                   loaded, calls, stored_data, view_mode>>

\* A behaviour is a sequence of toolbar operations on the symbol list.
InitToolbar ==
    /\ tab = "StockAnalysisApp" /\ pc = "start"
    /\ Part1Idle
    /\ csv_file = save_symbols(DefaultSymbols)
    /\ run = ToolbarIdle
    /\ loaded = <<>>
    /\ calls = <<>> /\ stored_data = <<>> /\ view_mode = "detailed"

NextToolbar ==
    \/ UploadCsv
    \/ LoadDefaultCsv
    \/ ClearSymbols
    \/ AddSymbol
    \/ EditSymbols
    \/ SelectStocks

SpecToolbar == InitToolbar /\ [][NextToolbar]_vars

\* C30: after any sequence of toolbar operations the active symbol list
\* holds exactly the symbols persisted in the file, each at most once.
C30_ActiveIsPersistedSet ==
    tab = "StockAnalysisApp" =>
        /\ set(run.active_symbols) = set(load_symbols(csv_file))
        /\ NoDuplicates(run.active_symbols)
====
